---------------------------- MODULE Spec2Model ----------------------------
(***************************************************************************)
(* A model of the Monte-Carlo IP searcher core: the arm tree               *)
(* (internal/bandit), the top-N collector and the event-driven scheduler   *)
(* (internal/engine).                                                      *)
(*                                                                         *)
(* Conventions.                                                            *)
(*  - A netip.Prefix is a record [fam, addr, bits]; fam is 4 or 6, addr    *)
(*    the address as a number, bits the prefix length.  The zero Prefix    *)
(*    (IsValid() = false) is NoPrefix.  IPv6 addresses of the model lie in *)
(*    ::/97, so that they fit the machine integers of TLC.                 *)
(*  - A netip.Addr is a record [fam, addr].                                *)
(*  - Go slices are sequences; Go index i is index i+1 here.               *)
(*  - Latencies and scores are whole milliseconds.                         *)
(***************************************************************************)
EXTENDS Integers, Sequences, FiniteSets, TLC

VARIABLES
    passes,     \* history: the split passes of Engine.schedule, in order
    callers,    \* the goroutines inside GetOrCreateNode or SplitNode
    made,       \* history: prefix -> the number of arms created for it
    rawCfg,     \* the Config handed to engine.New
    cfg,        \* Engine.cfg (engine.Config)
    cidrs,      \* Request.CIDRs after parsing: a list of prefixes
    mock,       \* the probe function of the run: "any" or a named mock
    pc,         \* position of the goroutine that called Engine.Run
    schedErr,   \* the error returned by Engine.schedule
    retErr,     \* the error returned by Engine.Run
    response,   \* Response.Top returned by Engine.Run
    ctxErr,     \* ctx.Err(): "nil" until ctx.Done() is closed
    roots,      \* ArmTree.roots (prefixes, in order)
    nodes,      \* ArmTree.nodeMap: prefix -> arm
    items,      \* TopNCollector.heap.items
    ipSeen,     \* TopNCollector.ipSeen: ip -> index in items
    focus,      \* SearchHead.CurrentFocus of each head
    history,    \* SearchHead.History of each head
    rng,        \* the generators' output: FreeDraws, or a tape of values per head
    rngPos,     \* number of draws made from each head's generator
    seenIPs,    \* Engine.seenIPs
    tasks,      \* Engine.tasks (buffered channel)
    done,       \* Engine.done (buffered channel)
    tasksClosed,\* close(e.tasks) has happened
    doneClosed, \* close(e.done) has happened
    workers,    \* each worker goroutine: its position and what it holds
    submitted,  \* Engine.submitted
    completed,  \* Engine.completed
    lastSplit,  \* schedule's lastSplit
    fillI,      \* schedule's initial-fill loop counter i
    seed,       \* Run's local variable seed (0 until Run computes it)
    offered,    \* history: ip -> the least score passed to Consider so far
    updaters,   \* the goroutines inside ArmNode.Update: position, arm, arguments
    updated,    \* history: arm -> the Update calls that returned, by outcome
    runNo,      \* which run of the same request this is (1 or 2)
    prevTop     \* Response.Top of the previous run of the same request

vars == <<seed, offered, updaters, updated, passes, callers, made, rawCfg, cfg, cidrs, mock, pc, schedErr,
          retErr, response, ctxErr, roots,
          nodes, items, ipSeen, focus, history, rng, rngPos,
          seenIPs, tasks, done,
          tasksClosed, doneClosed, workers, submitted, completed, lastSplit,
          fillI, runNo, prevTop>>

(***************************************************************************)
(* Generic helpers                                                         *)
(***************************************************************************)
Range(s) == {s[i] : i \in 1..Len(s)}

Min2(a, b) == IF a < b THEN a ELSE b

\* All enumerations of a finite set as a sequence without repetition: the
\* orders in which a Go map may be iterated.
Orders(S) ==
    {s \in [1..Cardinality(S) -> S] : \A i, j \in 1..Cardinality(S) : s[i] = s[j] => i = j}

RECURSIVE SeqSum(_)
SeqSum(s) == IF s = <<>> THEN 0 ELSE Head(s) + SeqSum(Tail(s))

RECURSIVE SetSum(_, _)
SetSum(f, S) ==
    IF S = {} THEN 0
    ELSE CHOOSE r \in {f[x] + SetSum(f, S \ {x}) : x \in {CHOOSE y \in S : TRUE}} : TRUE

(***************************************************************************)
(* net/netip prefixes and addresses                                        *)
(***************************************************************************)
NoPrefix == [fam |-> 0, addr |-> 0, bits |-> 0]

IsValid(p) == p.fam # 0

FamBits(fam) == IF fam = 4 THEN 32 ELSE 128

HostBits(p) == FamBits(p.fam) - p.bits

\* netip.Prefix.Masked: the host bits of the address are cleared.
Masked(p) ==
    IF ~IsValid(p) THEN p
    ELSE [p EXCEPT !.addr = (p.addr \div (2 ^ HostBits(p))) * (2 ^ HostBits(p))]

\* netip.Prefix.Contains(addr): same family and same leading bits.
Contains(p, a) ==
    /\ IsValid(p)
    /\ p.fam = a.fam
    /\ a.addr \div (2 ^ HostBits(p)) = p.addr \div (2 ^ HostBits(p))

Addr(p) == [fam |-> p.fam, addr |-> p.addr]

\* The addresses of a prefix.
AddrsOf(p) == {[fam |-> p.fam, addr |-> Masked(p).addr + k] : k \in 0..(2 ^ HostBits(p) - 1)}

\* cidr.SplitPrefix(p, step): the 2^step children of p, in address order;
\* an error (modelled as the empty list) if p.bits + step exceeds the
\* family's address length.
SplitPrefix(p, step) ==
    IF p.bits + step > FamBits(p.fam) \/ step <= 0 THEN <<>>
    ELSE [k \in 1..(2 ^ step) |->
            [fam |-> p.fam,
             addr |-> Masked(p).addr + (k - 1) * (2 ^ (HostBits(p) - step)),
             bits |-> p.bits + step]]


(***************************************************************************)
(* engine.Config                                                           *)
(* DiversityWeight is kept in hundredths (30 is 0.3).                      *)
(***************************************************************************)
DefaultConfig ==
    [Budget |-> 2000, TopN |-> 20, Concurrency |-> 200, Heads |-> 4, Beam |-> 32,
     SplitStepV4 |-> 2, SplitStepV6 |-> 4, MinSamplesSplit |-> 5,
     MaxBitsV4 |-> 24, MaxBitsV6 |-> 56, Seed |-> 0, SplitInterval |-> 20,
     DiversityWeight |-> 30]

\* Config.ApplyDefaults: every field that is <= 0 takes its default.
ApplyDefaults(c) ==
    LET d == DefaultConfig
        Dflt(f) == IF c[f] <= 0 THEN d[f] ELSE c[f]
    IN [Budget |-> Dflt("Budget"), TopN |-> Dflt("TopN"),
        Concurrency |-> Dflt("Concurrency"), Heads |-> Dflt("Heads"),
        Beam |-> Dflt("Beam"), SplitStepV4 |-> Dflt("SplitStepV4"),
        SplitStepV6 |-> Dflt("SplitStepV6"),
        MinSamplesSplit |-> Dflt("MinSamplesSplit"),
        MaxBitsV4 |-> Dflt("MaxBitsV4"), MaxBitsV6 |-> Dflt("MaxBitsV6"),
        Seed |-> c.Seed, SplitInterval |-> Dflt("SplitInterval"),
        DiversityWeight |-> Dflt("DiversityWeight")]

\* Config.Validate: "nil", or the name of the first field found invalid.
Validate(c) ==
    IF c.Budget <= 0 THEN "budget"
    ELSE IF c.TopN <= 0 THEN "topN"
    ELSE IF c.Concurrency <= 0 THEN "concurrency"
    ELSE IF c.Heads <= 0 THEN "heads"
    ELSE IF c.Beam <= 0 THEN "beam"
    ELSE IF c.SplitStepV4 <= 0 \/ c.SplitStepV4 > 8 THEN "splitStepV4"
    ELSE IF c.SplitStepV6 <= 0 \/ c.SplitStepV6 > 16 THEN "splitStepV6"
    ELSE IF c.MinSamplesSplit <= 0 THEN "minSamplesSplit"
    ELSE IF c.MaxBitsV4 <= 0 \/ c.MaxBitsV4 > 32 THEN "maxBitsV4"
    ELSE IF c.MaxBitsV6 <= 0 \/ c.MaxBitsV6 > 128 THEN "maxBitsV6"
    ELSE IF c.DiversityWeight < 0 \/ c.DiversityWeight > 100 THEN "diversityWeight"
    ELSE "nil"

\* Request.TimeoutMS with the probe timeout left at its default.
TimeoutMS == 3000

\* Config.ToHeadManagerConfig: the fields the model follows.
ToHeadManagerConfig(c) ==
    [NumHeads |-> c.Heads, BaseSeed |-> c.Seed, HistorySize |-> c.Beam,
     DiversityWeight |-> c.DiversityWeight]

(***************************************************************************)
(* bandit.ArmNode                                                          *)
(* Lambda is kept in thousandths (lambdaMilli = 1000 * Lambda), and Mu as   *)
(* the product muLambda = 1000 * Lambda * Mu, which the updates keep whole: *)
(* Mu = muLambda / lambdaMilli.  AlphaNG is kept in halves (alphaNG2 =      *)
(* 2 * AlphaNG).  SumSqDiff and BetaNG are kept as the list of the terms    *)
(* added to them: a term [a, b, l] is the number                           *)
(* (a / lambdaMilli_old) * (b / l) * (lambdaMilli_old / l) = a * b / l^2,   *)
(* with a / lambdaMilli_old = latency - oldMu and b / l = latency - Mu;    *)
(* SumSqDiff is the sum of its terms and BetaNG is 1 plus half the sum of  *)
(* its terms.                                                              *)
(***************************************************************************)
NewArmNode(prefix, parent) ==
    [prefix |-> Masked(prefix), parent |-> parent, children |-> <<>>,
     alpha |-> 1, beta |-> 1, lambdaMilli |-> 1, muLambda |-> 0, alphaNG2 |-> 2,
     betaNG |-> <<>>, samples |-> 0, successes |-> 0, failures |-> 0,
     sumLatency |-> 0, sumSqDiff |-> <<>>, isSplit |-> FALSE]

\* The term (latencyMS - oldMu) * (latencyMS - a.Mu) * oldLambda / a.Lambda of a
\* successful Update on the arm a.
VarTerm(a, latencyMS) ==
    [a |-> latencyMS * a.lambdaMilli - a.muLambda,
     b |-> latencyMS * (a.lambdaMilli + 1000) - (a.muLambda + 1000 * latencyMS),
     l |-> a.lambdaMilli + 1000]

\* A faulty ArmNode.Update: a failed probe is not counted as a sample.
ArmUpdateLosingFailures(a, success, latencyMS, timeoutMS) ==
    IF success
    THEN LET b == [a EXCEPT !.samples = @ + 1, !.successes = @ + 1, !.alpha = @ + 1,
                            !.lambdaMilli = @ + 1000, !.muLambda = @ + 1000 * latencyMS,
                            !.sumLatency = @ + latencyMS]
         IN IF b.successes > 1
            THEN [b EXCEPT !.sumSqDiff = Append(@, VarTerm(a, latencyMS)),
                           !.alphaNG2 = @ + 1,
                           !.betaNG = Append(@, VarTerm(a, latencyMS))]
            ELSE b
    ELSE [a EXCEPT !.failures = @ + 1, !.beta = @ + 1,
                   !.lambdaMilli = @ + 500, !.muLambda = @ + 500 * (timeoutMS * 2)]

\* A faulty ArmNode.Update: a failed probe also counts for the variance.
ArmUpdateFailureInVariance(a, success, latencyMS, timeoutMS) ==
    IF success
    THEN LET b == [a EXCEPT !.samples = @ + 1, !.successes = @ + 1, !.alpha = @ + 1,
                            !.lambdaMilli = @ + 1000, !.muLambda = @ + 1000 * latencyMS,
                            !.sumLatency = @ + latencyMS]
         IN IF b.successes > 1
            THEN [b EXCEPT !.sumSqDiff = Append(@, VarTerm(a, latencyMS)),
                           !.alphaNG2 = @ + 1,
                           !.betaNG = Append(@, VarTerm(a, latencyMS))]
            ELSE b
    ELSE [a EXCEPT !.samples = @ + 1, !.failures = @ + 1, !.beta = @ + 1,
                   !.lambdaMilli = @ + 500, !.muLambda = @ + 500 * (timeoutMS * 2),
                   !.alphaNG2 = @ + 1]

\* A faulty ArmNode.Update: the first success already counts for the
\* variance.
ArmUpdateUnguardedVariance(a, success, latencyMS, timeoutMS) ==
    IF success
    THEN [a EXCEPT !.samples = @ + 1, !.successes = @ + 1, !.alpha = @ + 1,
                   !.lambdaMilli = @ + 1000, !.muLambda = @ + 1000 * latencyMS,
                   !.sumLatency = @ + latencyMS,
                   !.sumSqDiff = Append(@, VarTerm(a, latencyMS)),
                   !.alphaNG2 = @ + 1,
                   !.betaNG = Append(@, VarTerm(a, latencyMS))]
    ELSE [a EXCEPT !.samples = @ + 1, !.failures = @ + 1, !.beta = @ + 1,
                   !.lambdaMilli = @ + 500, !.muLambda = @ + 500 * (timeoutMS * 2)]

\* ArmNode.Update on the arm a.
ArmUpdate(a, success, latencyMS, timeoutMS) ==
    IF success
    THEN LET b == [a EXCEPT !.samples = @ + 1, !.successes = @ + 1, !.alpha = @ + 1,
                            !.lambdaMilli = @ + 1000, !.muLambda = @ + 1000 * latencyMS,
                            !.sumLatency = @ + latencyMS]
         IN IF b.successes > 1
            THEN [b EXCEPT !.sumSqDiff = Append(@, VarTerm(a, latencyMS)),
                           !.alphaNG2 = @ + 1,
                           !.betaNG = Append(@, VarTerm(a, latencyMS))]
            ELSE b
    ELSE [a EXCEPT !.samples = @ + 1, !.failures = @ + 1, !.beta = @ + 1,
                   !.lambdaMilli = @ + 500, !.muLambda = @ + 500 * (timeoutMS * 2)]

\* The history of the arms after an Update call on the arm of prefix p has
\* returned: the calls counted by arm and by outcome.
Returned(m, p, success) ==
    LET was == IF p \in DOMAIN m THEN m[p] ELSE [ok |-> 0, fail |-> 0]
        now == IF success THEN [was EXCEPT !.ok = @ + 1] ELSE [was EXCEPT !.fail = @ + 1]
    IN [q \in DOMAIN m \cup {p} |-> IF q = p THEN now ELSE m[q]]

\* ArmNode.CanSplit.
CanSplit(a, minSamples, maxBitsV4, maxBitsV6) ==
    /\ ~a.isSplit
    /\ a.samples >= minSamples
    /\ IF a.prefix.fam = 4 THEN a.prefix.bits < maxBitsV4 ELSE a.prefix.bits < maxBitsV6

(***************************************************************************)
(* bandit.ArmTree.  A tree value is [roots, nodes]; the configuration of   *)
(* the tree (TreeConfig) is the engine configuration c.                    *)
(***************************************************************************)
RECURSIVE NewArmTreeFrom(_, _)
NewArmTreeFrom(prefixes, t) ==
    IF prefixes = <<>> THEN t
    ELSE LET p == Masked(Head(prefixes)) IN
         IF p \in DOMAIN t.nodes
         THEN NewArmTreeFrom(Tail(prefixes), t)
         ELSE NewArmTreeFrom(Tail(prefixes),
                [roots |-> Append(t.roots, p),
                 nodes |-> [q \in DOMAIN t.nodes \cup {p} |->
                              IF q = p THEN NewArmNode(p, NoPrefix) ELSE t.nodes[q]]])

NewArmTree(prefixes) == NewArmTreeFrom(prefixes, [roots |-> <<>>, nodes |-> <<>>])

\* ArmTree.findParentLocked: descend from node to the deepest arm, along
\* children lists, whose prefix contains the target; at each arm the first
\* matching child is followed.
RECURSIVE findParentLocked(_, _, _)
findParentLocked(nd, node, target) ==
    IF ~Contains(node, Addr(target)) THEN NoPrefix
    ELSE LET ch == nd[node].children
             hit == {i \in 1..Len(ch) : Contains(ch[i], Addr(target)) /\ ch[i].bits < target.bits}
         IN IF hit = {} THEN node
            ELSE findParentLocked(nd, ch[CHOOSE i \in hit : \A j \in hit : i <= j], target)

\* A faulty GetOrCreateNode: no second lookup under the write lock.
GetOrCreateNodeUnchecked(t, prefix0) ==
    LET prefix == Masked(prefix0)
        hit == {i \in 1..Len(t.roots) :
                   Contains(t.roots[i], Addr(prefix)) /\ t.roots[i].bits < prefix.bits}
        parent == IF hit = {} THEN NoPrefix
                  ELSE findParentLocked(t.nodes,
                           t.roots[CHOOSE i \in hit : \A j \in hit : i <= j], prefix)
        withNode == [q \in DOMAIN t.nodes \cup {prefix} |->
                       IF q = prefix THEN NewArmNode(prefix, parent) ELSE t.nodes[q]]
    IN IF parent # NoPrefix
       THEN [roots |-> t.roots,
             nodes |-> [withNode EXCEPT ![parent].children = Append(@, prefix)]]
       ELSE [roots |-> Append(t.roots, prefix), nodes |-> withNode]

\* ArmTree.GetOrCreateNode: the tree after the call.
GetOrCreateNode(t, prefix0) ==
    LET prefix == Masked(prefix0) IN
    IF prefix \in DOMAIN t.nodes THEN t
    ELSE LET hit == {i \in 1..Len(t.roots) :
                        Contains(t.roots[i], Addr(prefix)) /\ t.roots[i].bits < prefix.bits}
             parent == IF hit = {} THEN NoPrefix
                       ELSE findParentLocked(t.nodes,
                                t.roots[CHOOSE i \in hit : \A j \in hit : i <= j], prefix)
             withNode == [q \in DOMAIN t.nodes \cup {prefix} |->
                            IF q = prefix THEN NewArmNode(prefix, parent) ELSE t.nodes[q]]
         IN IF parent # NoPrefix
            THEN [roots |-> t.roots,
                  nodes |-> [withNode EXCEPT ![parent].children = Append(@, prefix)]]
            ELSE [roots |-> Append(t.roots, prefix), nodes |-> withNode]

\* ArmTree.Update: GetOrCreateNode, then ArmNode.Update on that arm.
TreeUpdate(t, prefix, success, latencyMS, timeoutMS) ==
    LET t1 == GetOrCreateNode(t, prefix) IN
    [t1 EXCEPT !.nodes[Masked(prefix)] = ArmUpdate(@, success, latencyMS, timeoutMS)]

\* ArmTree.LeafNodes, as a set (the order of the returned slice is the
\* iteration order of the node map).
LeafNodes(nd) == {p \in DOMAIN nd : ~nd[p].isSplit}

\* The children SplitNode adds to the arm p, given the child prefixes.
RECURSIVE AddChildren(_, _, _)
AddChildren(nd, p, children) ==
    IF children = <<>> THEN nd
    ELSE LET c == Masked(Head(children)) IN
         IF c \in DOMAIN nd THEN AddChildren(nd, p, Tail(children))
         ELSE CHOOSE r \in {AddChildren(nd1, p, Tail(children)) :
                            nd1 \in {[q \in DOMAIN nd \cup {c} |->
                                        IF q = c THEN NewArmNode(c, p)
                                        ELSE IF q = p
                                        THEN [nd[p] EXCEPT !.children = Append(@, c)]
                                        ELSE nd[q]]}} : TRUE

\* Whether ArmTree.SplitNode(p) returns a non-nil slice.
SplitNodeOK(nd, p, c) ==
    /\ CanSplit(nd[p], c.MinSamplesSplit, c.MaxBitsV4, c.MaxBitsV6)
    /\ SplitPrefix(p, IF p.fam = 4 THEN c.SplitStepV4 ELSE c.SplitStepV6) # <<>>

\* ArmTree.SplitNode(p): the node map after the call.
SplitNode(nd, p, c) ==
    IF ~SplitNodeOK(nd, p, c) THEN nd
    ELSE LET step == IF p.fam = 4 THEN c.SplitStepV4 ELSE c.SplitStepV6
             nd1 == AddChildren(nd, p, SplitPrefix(p, step))
         IN [nd1 EXCEPT ![p].isSplit = TRUE]

\* ArmTree.GetSplitCandidates(limit): the splittable leaves, best priority
\* first, cut to limit.  The priority is a function of posterior statistics
\* and the sort is not stable, so every order of the splittable leaves is
\* allowed here.
GetSplitCandidates(nd, c, limit) ==
    LET cand == {p \in LeafNodes(nd) :
                    CanSplit(nd[p], c.MinSamplesSplit, c.MaxBitsV4, c.MaxBitsV6)}
    IN {SubSeq(s, 1, Min2(limit, Len(s))) : s \in Orders(cand)}

\* ArmTree.TotalSamples.
TotalSamples(nd) == SetSum([p \in DOMAIN nd |-> nd[p].samples], DOMAIN nd)

(***************************************************************************)
(* engine.TopNCollector over container/heap.                               *)
(* A TopResult is [ip, prefix, ok, score]; a collector value is            *)
(* [items, ipSeen].                                                        *)
(***************************************************************************)
\* topNHeap.Less: a max-heap on ScoreMS.
Less(h, i, j) == h[i].score > h[j].score

\* topNHeap.Swap.
Swap(h, i, j) == [h EXCEPT ![i] = h[j], ![j] = h[i]]

\* container/heap up(j).
RECURSIVE heapUp(_, _)
heapUp(h, j) ==
    LET i == j \div 2 IN
    IF j <= 1 \/ ~Less(h, j, i) THEN h
    ELSE heapUp(Swap(h, i, j), i)

\* container/heap down(i, n): the slice and the final position.
RECURSIVE heapDown(_, _, _)
heapDown(h, i, n) ==
    LET j1 == 2 * i
        j == IF j1 + 1 <= n /\ Less(h, j1 + 1, j1) THEN j1 + 1 ELSE j1
    IN IF j1 > n THEN [h |-> h, i |-> i]
       ELSE IF ~Less(h, j, i) THEN [h |-> h, i |-> i]
       ELSE heapDown(Swap(h, i, j), j, n)

\* heap.Push(h, x): topNHeap.Push appends, then up.
HeapPush(h, x) == heapUp(Append(h, x), Len(h) + 1)

\* heap.Pop(h): swap the root with the last item, sift down, and
\* topNHeap.Pop removes the last item.
HeapPop(h) ==
    LET n == Len(h)
        d == heapDown(Swap(h, 1, n), 1, n - 1).h
    IN [h |-> SubSeq(d, 1, n - 1), x |-> d[n]]

\* A faulty heap.Fix: the item stays where it is.
HeapFixNothing(h, i) == h

\* heap.Fix(h, i): down, and up if the item did not move down.
HeapFix(h, i) ==
    LET d == heapDown(h, i, Len(h))
    IN IF d.i > i THEN d.h ELSE heapUp(h, i)

\* TopNCollector.rebuildIPMap: a later index overwrites an earlier one.
rebuildIPMap(h) ==
    [ip \in {h[i].ip : i \in 1..Len(h)} |->
        CHOOSE i \in 1..Len(h) : h[i].ip = ip /\ \A j \in 1..Len(h) : h[j].ip = ip => j <= i]

NewTopNCollector == [items |-> <<>>, ipSeen |-> <<>>]

\* A faulty Consider: the lookup of the IP in ipSeen is missing.
ConsiderWithoutDedup(c, n, r) ==
    IF n <= 0 THEN c
    ELSE IF Len(c.items) < n
    THEN LET h == HeapPush(c.items, r) IN [items |-> h, ipSeen |-> rebuildIPMap(h)]
    ELSE IF r.score < c.items[1].score
    THEN LET h == HeapPush(HeapPop(c.items).h, r) IN [items |-> h, ipSeen |-> rebuildIPMap(h)]
    ELSE c

\* A faulty Consider: a full collector evicts its worst entry for any new IP,
\* whatever the score.
ConsiderAlwaysEvicting(c, n, r) ==
    IF n <= 0 THEN c
    ELSE IF r.ip \in DOMAIN c.ipSeen
    THEN LET idx == c.ipSeen[r.ip] IN
         IF r.score < c.items[idx].score
         THEN LET h == HeapFix([c.items EXCEPT ![idx] = r], idx)
              IN [items |-> h, ipSeen |-> rebuildIPMap(h)]
         ELSE c
    ELSE IF Len(c.items) < n
    THEN LET h == HeapPush(c.items, r) IN [items |-> h, ipSeen |-> rebuildIPMap(h)]
    ELSE LET h == HeapPush(HeapPop(c.items).h, r) IN [items |-> h, ipSeen |-> rebuildIPMap(h)]

\* A faulty Consider: a kept IP takes the new result whatever the score.
ConsiderAlwaysReplacing(c, n, r) ==
    IF n <= 0 THEN c
    ELSE IF r.ip \in DOMAIN c.ipSeen
    THEN LET idx == c.ipSeen[r.ip]
             h == HeapFix([c.items EXCEPT ![idx] = r], idx)
         IN [items |-> h, ipSeen |-> rebuildIPMap(h)]
    ELSE IF Len(c.items) < n
    THEN LET h == HeapPush(c.items, r) IN [items |-> h, ipSeen |-> rebuildIPMap(h)]
    ELSE IF r.score < c.items[1].score
    THEN LET h == HeapPush(HeapPop(c.items).h, r) IN [items |-> h, ipSeen |-> rebuildIPMap(h)]
    ELSE c

\* TopNCollector.Consider(r) on a collector of capacity n.
Consider(c, n, r) ==
    IF n <= 0 THEN c
    ELSE IF r.ip \in DOMAIN c.ipSeen
    THEN LET idx == c.ipSeen[r.ip] IN
         IF r.score < c.items[idx].score
         THEN LET h == HeapFix([c.items EXCEPT ![idx] = r], idx)
              IN [items |-> h, ipSeen |-> rebuildIPMap(h)]
         ELSE c
    ELSE IF Len(c.items) < n
    THEN LET h == HeapPush(c.items, r) IN [items |-> h, ipSeen |-> rebuildIPMap(h)]
    ELSE IF r.score < c.items[1].score
    THEN LET h == HeapPush(HeapPop(c.items).h, r) IN [items |-> h, ipSeen |-> rebuildIPMap(h)]
    ELSE c

\* The history of a collector after Consider was given a result of address
\* ip and score sc: the least score each address was offered with.
Offer(m, ip, sc) ==
    IF ip \in DOMAIN m /\ m[ip] <= sc THEN m
    ELSE [a \in DOMAIN m \cup {ip} |-> IF a = ip THEN sc ELSE m[a]]

\* The selection sort of TopNCollector.Snapshot from position i on.
RECURSIVE SelectionSort(_, _)
SelectionSort(res, i) ==
    IF i > Len(res) THEN res
    ELSE LET minIdx == CHOOSE m \in i..Len(res) :
                          /\ \A j \in i..Len(res) : res[m].score <= res[j].score
                          /\ \A j \in i..(m - 1) : res[j].score > res[m].score
         IN SelectionSort(Swap(res, i, minIdx), i + 1)

\* TopNCollector.Snapshot.
Snapshot(h) == SelectionSort(h, 1)

\* TopNCollector.Best: the first item of minimal score.
Best(h) ==
    IF Len(h) = 0 THEN [ip |-> [fam |-> 0, addr |-> 0], prefix |-> NoPrefix, ok |-> FALSE, score |-> 0]
    ELSE h[CHOOSE m \in 1..Len(h) :
              /\ \A j \in 1..Len(h) : h[m].score <= h[j].score
              /\ \A j \in 1..(m - 1) : h[j].score > h[m].score]

(***************************************************************************)
(* bandit.SearchHead and bandit.HeadManager.                               *)
(* The heads of a manager are [focus, history], functions of the head id.  *)
(***************************************************************************)
\* The bytes of an address (As4 / As16), most significant first.
AsBytes(a) ==
    IF a.fam = 4
    THEN [i \in 1..4 |-> (a.addr \div (256 ^ (4 - i))) % 256]
    ELSE [i \in 1..16 |-> IF i <= 12 THEN 0 ELSE (a.addr \div (256 ^ (16 - i))) % 256]

\* The inner loop of compareBytes: leading bits on which two different
\* bytes agree, counted from bit 7 down while matching < maxBits.
RECURSIVE leadingEqual(_, _, _, _, _)
leadingEqual(x, y, bit, matching, maxBits) ==
    IF bit < 0 \/ matching >= maxBits THEN matching
    ELSE IF (x \div (2 ^ bit)) % 2 = (y \div (2 ^ bit)) % 2
    THEN leadingEqual(x, y, bit - 1, matching + 1, maxBits)
    ELSE matching

RECURSIVE compareBytesFrom(_, _, _, _, _)
compareBytesFrom(a, b, maxBits, i, matching) ==
    IF i > Len(a) \/ matching >= maxBits THEN maxBits - matching
    ELSE IF a[i] = b[i]
    THEN compareBytesFrom(a, b, maxBits, i + 1, Min2(matching + 8, maxBits))
    ELSE maxBits - leadingEqual(a[i], b[i], 7, matching, maxBits)

\* compareBytes(a, b, maxBits): maxBits minus the number of matching bits.
compareBytes(a, b, maxBits) == compareBytesFrom(a, b, maxBits, 1, 0)

\* prefixDistance(a, b).
prefixDistance(a, b) ==
    IF (a.fam = 4) # (b.fam = 4) THEN 128
    ELSE compareBytes(AsBytes(Addr(a)), AsBytes(Addr(b)), Min2(a.bits, b.bits))

\* A faulty SetFocus: the history is never cut.
SetFocusKeepingAll(hs, h, prefix, k) ==
    [focus |-> [hs.focus EXCEPT ![h] = prefix],
     history |-> [hs.history EXCEPT ![h] = Append(hs.history[h], prefix)]]

\* SearchHead.SetFocus on the heads hs, for head h, with history size k.
SetFocus(hs, h, prefix, k) ==
    LET hist == Append(hs.history[h], prefix)
        cut == IF Len(hist) > k THEN SubSeq(hist, Len(hist) - k + 1, Len(hist)) ELSE hist
    IN [focus |-> [hs.focus EXCEPT ![h] = prefix],
        history |-> [hs.history EXCEPT ![h] = cut]]

\* NewHeadManager: no head has a focus yet.
NewHeadManager(c) ==
    [focus |-> [h \in 0..(c.Heads - 1) |-> NoPrefix],
     history |-> [h \in 0..(c.Heads - 1) |-> <<>>]]

\* The seed NewHeadManager gives the generator of head i.
HeadSeed(hc, i) == hc.BaseSeed + i * 9973

\* HeadManager.getOtherHeadFocuses: the valid focuses of the other heads,
\* in head order.
RECURSIVE getOtherHeadFocusesFrom(_, _, _)
getOtherHeadFocusesFrom(hs, excludeID, h) ==
    IF h \notin DOMAIN hs.focus THEN <<>>
    ELSE IF h # excludeID /\ IsValid(hs.focus[h])
    THEN <<hs.focus[h]>> \o getOtherHeadFocusesFrom(hs, excludeID, h + 1)
    ELSE getOtherHeadFocusesFrom(hs, excludeID, h + 1)

getOtherHeadFocuses(hs, excludeID) == getOtherHeadFocusesFrom(hs, excludeID, 0)

\* The heads after SetFocus(assign[h]) for h = from, from+1, ..., in order.
RECURSIVE SetAllFocus(_, _, _, _)
SetAllFocus(hs, assign, from, k) ==
    IF from \notin DOMAIN hs.focus THEN hs
    ELSE CHOOSE r \in {SetAllFocus(hs1, assign, from + 1, k) :
                       hs1 \in {SetFocus(hs, from, assign[from], k)}} : TRUE

\* The sum of prefixDistance over the pairs i < j of a list of focuses.
PairDistanceSum(fs) ==
    LET pairs == {pr \in (1..Len(fs)) \X (1..Len(fs)) : pr[1] < pr[2]}
    IN SetSum([pr \in pairs |-> prefixDistance(fs[pr[1]], fs[pr[2]])], pairs)

\* A faulty RebalanceHeads: heads are reassigned even when the tree has
\* fewer leaves than there are heads.
RebalanceHeadsWithFewLeaves(hs, nd, k) ==
    UNION {LET n == Len(focuses)
               pairs == (n * (n - 1)) \div 2
               H == Cardinality(DOMAIN hs.focus)
           IN IF n < 2 THEN {hs}
              ELSE IF ~(PairDistanceSum(focuses) < 4 * pairs) THEN {hs}
              ELSE {SetAllFocus(hs, [h \in 0..(H - 1) |-> ord[((h * Len(ord)) \div H) + 1]], 0, k) :
                       ord \in Orders(LeafNodes(nd))} :
           focuses \in {getOtherHeadFocusesFrom(hs, -1, 0)}}

\* HeadManager.RebalanceHeads: the possible heads after the call.  The
\* leaves come in the iteration order of the node map; head i takes the
\* leaf at index (i * L) / H of that order.
RebalanceHeads(hs, nd, k) ==
    \* -1 is no head's id: the valid focuses of all heads, in head order
    UNION {LET n == Len(focuses)
               pairs == (n * (n - 1)) \div 2
               H == Cardinality(DOMAIN hs.focus)
           IN IF n < 2 THEN {hs}
              ELSE IF ~(PairDistanceSum(focuses) < 4 * pairs) THEN {hs}
              ELSE IF Cardinality(LeafNodes(nd)) < H THEN {hs}
              ELSE {SetAllFocus(hs, [h \in 0..(H - 1) |-> ord[((h * Len(ord)) \div H) + 1]], 0, k) :
                       ord \in Orders(LeafNodes(nd))} :
           focuses \in {getOtherHeadFocusesFrom(hs, -1, 0)}}

(***************************************************************************)
(* Random draws (bandit.ThompsonSampler over math/rand).                   *)
(* A draw is a number in 0..RngMod-1: Float64() is draw / RngMod and       *)
(* Uint64() is draw.  With rng = FreeDraws every draw may be any value; with a *)
(* tape, head h's generator yields rng[h] in order (cyclically), which is  *)
(* what a generator seeded with BaseSeed + h * 9973 does: a fixed sequence. *)
(***************************************************************************)
RngMod == 4

TapeLen == 4

\* The value of rng that stands for unconstrained generators.
FreeDraws == <<>>

\* The possible values of the k-th next draw (k = 0, 1, ...) of head h at
\* position pos.
DrawVals(g, h, pos, k) ==
    IF g = FreeDraws THEN 0..(RngMod - 1) ELSE {g[h][((pos + k) % Len(g[h])) + 1]}

\* The position after n more draws.
Advance(g, h, pos, n) == IF g = FreeDraws THEN pos ELSE (pos + n) % Len(g[h])

\* 120 * (1 - depthBonus) for a candidate prefix, as SelectNextPrefix
\* computes it: depthBonus is (bits-16)/8*0.2 for IPv4, (bits-32)/24*0.2 for
\* IPv6, and 0 if that is negative.
DepthFactor120(p) ==
    IF p.fam = 4
    THEN (IF p.bits - 16 < 0 THEN 120 ELSE 120 - 3 * (p.bits - 16))
    ELSE (IF p.bits - 32 < 0 THEN 120 ELSE 120 - (p.bits - 32))

\* The first index of a minimal entry of a non-empty list of numbers (the
\* scan for the best candidate in SelectNextPrefix).
FirstMin(sc) ==
    CHOOSE m \in 1..Len(sc) :
        /\ \A j \in 1..Len(sc) : sc[m] <= sc[j]
        /\ \A j \in 1..(m - 1) : sc[j] > sc[m]

\* HeadManager.SelectNextPrefix for head h: the possible [prefix, pos].
\* When every leaf has fewer than 3 samples and no other head has a focus,
\* the combined score of a leaf is draw * timeout/2 * (1 - depthBonus), one
\* draw per leaf in the iteration order of the node map, and the first
\* minimum wins; a single leaf with fewer than 3 samples wins after its one
\* draw whatever the other heads focus on.  Otherwise the score comes out of the Beta and Normal-Gamma
\* samplers and the diversity penalty, and any leaf may win.
SelectNextPrefix(hs, nd, g, h, pos) ==
    LET leaves == LeafNodes(nd) IN
    IF leaves = {} THEN {[prefix |-> NoPrefix, pos |-> pos]}
    ELSE IF g # FreeDraws /\ \A p \in leaves : nd[p].samples < 3
            /\ (getOtherHeadFocuses(hs, h) = <<>> \/ Cardinality(leaves) = 1)
    THEN {[prefix |-> ord[FirstMin([i \in 1..Len(ord) |->
                        g[h][((pos + i - 1) % Len(g[h])) + 1] * DepthFactor120(ord[i])])],
           pos |-> Advance(g, h, pos, Len(ord))] : ord \in Orders(leaves)}
    ELSE {[prefix |-> p, pos |-> np] :
            p \in leaves, np \in (IF g = FreeDraws THEN {pos} ELSE 0..(Len(g[h]) - 1))}

\* sampleAddrFromPrefix with the draws taken from position pos on: the
\* address and the number of draws used.  IPv4 takes one Uint64 for all
\* host bits; IPv6 takes one Uint64 for each byte that has host bits, last
\* byte first.
RECURSIVE sampleAddr6From(_, _, _, _, _, _)
sampleAddr6From(g, h, pos, bitsRemaining, shift, acc) ==
    IF bitsRemaining <= 0 \/ shift >= 24 THEN [host |-> acc.host, used |-> acc.used]
    ELSE LET v == g[h][((pos + acc.used) % Len(g[h])) + 1]
             take == Min2(bitsRemaining, 8)
         IN sampleAddr6From(g, h, pos, bitsRemaining - take, shift + 8,
                [host |-> acc.host + (v % (2 ^ take)) * (2 ^ shift), used |-> acc.used + 1])

\* A faulty sampleAddr4: the draw is not masked to the host bits.
sampleAddrUnmasked(p, g, h, pos) ==
    LET m == Masked(p) IN
    IF HostBits(m) = 0 THEN [ip |-> Addr(m), used |-> 0]
    ELSE [ip |-> [fam |-> m.fam, addr |-> m.addr + g[h][(pos % Len(g[h])) + 1]], used |-> 1]

sampleAddrFromPrefix(p, g, h, pos) ==
    LET m == Masked(p) IN
    IF HostBits(m) = 0 THEN [ip |-> Addr(m), used |-> 0]
    ELSE IF m.fam = 4
    THEN [ip |-> [fam |-> 4, addr |-> m.addr + (g[h][(pos % Len(g[h])) + 1] % (2 ^ Min2(HostBits(m), 30)))],
          used |-> 1]
    ELSE LET r == sampleAddr6From(g, h, pos, HostBits(m), 0, [host |-> 0, used |-> 0])
         IN [ip |-> [fam |-> 6, addr |-> m.addr + r.host], used |-> r.used]

MaxTries == 32

\* sampleIPWithDedup's loop without the retry: the first draw is returned,
\* seen or not.
dedupLoopFirstDraw(p, g, h, pos, seen, i, used) ==
    LET r == sampleAddrFromPrefix(p, g, h, (pos + used) % Len(g[h])) IN
    [ip |-> r.ip, pos |-> Advance(g, h, pos, used + r.used), seen |-> seen \cup {r.ip}]

\* The loop of sampleIPWithDedup on a tape: try number i (from 0), with
\* used draws taken so far.
RECURSIVE dedupLoop(_, _, _, _, _, _, _)
dedupLoop(p, g, h, pos, seen, i, used) ==
    LET r == sampleAddrFromPrefix(p, g, h, (pos + used) % Len(g[h])) IN
    IF r.ip \notin seen \/ i = MaxTries - 1
    THEN [ip |-> r.ip, pos |-> Advance(g, h, pos, used + r.used), seen |-> seen \cup {r.ip}]
    ELSE dedupLoop(p, g, h, pos, seen, i + 1, used + r.used)

\* Engine.sampleIPWithDedup: the possible [ip, pos, seen].  With free draws
\* every address of the prefix can come out: an unseen one at once, a seen
\* one as the last of MaxTries draws that were all seen.
sampleIPWithDedup(prefix, g, h, pos, seen) ==
    LET p == Masked(prefix) IN
    IF HostBits(p) <= 0 THEN {[ip |-> Addr(p), pos |-> pos, seen |-> seen]}
    ELSE IF g = FreeDraws
    THEN {[ip |-> a, pos |-> pos, seen |-> seen \cup {a}] : a \in AddrsOf(p)}
    ELSE {dedupLoop(p, g, h, pos, seen, 0, 0)}

(***************************************************************************)
(* engine.Engine: the pieces of the scheduler                              *)
(***************************************************************************)
\* 1.0.0.0 and 1.1.0.0 as numbers.
Net1 == 2 ^ 24

Net1x1 == Net1 + 2 ^ 16

\* The probe function: the possible [ok, ms] for an address.  "any" is a
\* network that may answer anything; "quad" is a deterministic mock that
\* answers by the last two bits of the address (10 ms, 20 ms, or failure);
\* "near18" is a deterministic mock that answers in 10 ms inside
\* 1.1.0.0/18 and in 200 ms elsewhere; "tiers" is a deterministic mock that
\* answers in 10, 12, 14 or 16 ms by the last two bits of the address.
ProbeResults(m, ip) ==
    IF m = "any"
    THEN {[ok |-> TRUE, ms |-> 10], [ok |-> TRUE, ms |-> 20], [ok |-> FALSE, ms |-> 0]}
    ELSE IF m = "near18"
    THEN {[ok |-> TRUE,
           ms |-> IF Contains([fam |-> 4, addr |-> Net1x1, bits |-> 18], ip) THEN 10 ELSE 200]}
    ELSE IF m = "tiers"
    THEN {[ok |-> TRUE, ms |-> 10 + 2 * (ip.addr % 4)]}
    ELSE IF ip.addr % 4 = 1 THEN {[ok |-> TRUE, ms |-> 10]}
    ELSE IF ip.addr % 4 = 2 THEN {[ok |-> TRUE, ms |-> 20]}
    ELSE {[ok |-> FALSE, ms |-> 0]}

\* loadPrefixes: mask and deduplicate, keeping the first occurrences.
RECURSIVE loadPrefixesFrom(_, _)
loadPrefixesFrom(pfxs, unique) ==
    IF pfxs = <<>> THEN unique
    ELSE LET p == Masked(Head(pfxs)) IN
         loadPrefixesFrom(Tail(pfxs), IF p \in Range(unique) THEN unique ELSE Append(unique, p))

loadPrefixes(req) == loadPrefixesFrom(req, <<>>)

\* A faulty score: the failure penalty is forgotten.
ScoreOfWithoutPenalty(d, timeoutMS) == d.ms

\* The score processOneResult gives a result.
ScoreOf(d, timeoutMS) == IF d.ok THEN d.ms ELSE timeoutMS * 2

\* Engine.processOneResult: the tree and the collector after the call.
processOneResult(t, c, n, d, timeoutMS) ==
    [tree |-> TreeUpdate(t, d.task.prefix, d.ok, d.ms, timeoutMS),
     topN |-> Consider(c, n, [ip |-> d.task.ip, prefix |-> d.task.prefix,
                              ok |-> d.ok, score |-> ScoreOf(d, timeoutMS)])]

\* A faulty split loop: the number of splits of a pass is not capped.
RECURSIVE splitLoopUncapped(_, _, _, _, _)
splitLoopUncapped(nd, candidates, splitCount, maxSplits, c) ==
    IF candidates = <<>> THEN nd
    ELSE LET p == Head(candidates) IN
         IF SplitNodeOK(nd, p, c)
         THEN CHOOSE r \in {splitLoopUncapped(nd1, Tail(candidates), splitCount + 1,
                                              maxSplits, c) :
                            nd1 \in {SplitNode(nd, p, c)}} : TRUE
         ELSE splitLoopUncapped(nd, Tail(candidates), splitCount, maxSplits, c)

\* The loop of trySplit over the candidates.
RECURSIVE splitLoop(_, _, _, _, _)
splitLoop(nd, candidates, splitCount, maxSplits, c) ==
    IF candidates = <<>> \/ splitCount >= maxSplits THEN nd
    ELSE LET p == Head(candidates) IN
         IF SplitNodeOK(nd, p, c)
         THEN CHOOSE r \in {splitLoop(nd1, Tail(candidates), splitCount + 1, maxSplits, c) :
                            nd1 \in {SplitNode(nd, p, c)}} : TRUE
         ELSE splitLoop(nd, Tail(candidates), splitCount, maxSplits, c)

\* Engine.trySplit: the possible [nodes, heads] after the call.
trySplit(nd, hs, c) ==
    UNION {UNION {{[nodes |-> nd1, heads |-> hs1] : hs1 \in RebalanceHeads(hs, nd1, c.Beam)} :
                  nd1 \in {splitLoop(nd, cand, 0, c.Heads * 2, c)}} :
           cand \in GetSplitCandidates(nd, c, c.Heads * 4)}

\* The prefixes of a sorted top-N list up to the tier-2 threshold, each with
\* the score of its first (best) entry: prefixBestScore.
prefixBestScore(top) ==
    LET best == top[1].score
        within == {i \in 1..Len(top) : \A j \in 1..i : ~(top[j].score * 10 > best * 15)}
        keys == {top[i].prefix : i \in within}
    IN [p \in keys |-> top[CHOOSE i \in within :
                              top[i].prefix = p /\ \A j \in within : top[j].prefix = p => i <= j].score]

RECURSIVE weightedList(_, _, _)
weightedList(order, pbs, best) ==
    IF order = <<>> THEN <<>>
    ELSE LET p == Head(order) IN
         (IF pbs[p] * 10 <= best * 12 THEN <<p, p, p>> ELSE <<p>>)
            \o weightedList(Tail(order), pbs, best)

\* Engine.getExploitationPrefixes: the possible lists (one for each
\* iteration order of the prefixBestScore map).
getExploitationPrefixes(h) ==
    LET top == Snapshot(h) IN
    IF Len(top) = 0 THEN {<<>>}
    ELSE LET pbs == prefixBestScore(top) IN
         {weightedList(order, pbs, top[1].score) : order \in Orders(DOMAIN pbs)}

ExploreAfter == 30

\* A faulty submitOneTask: the exploitation branch is tried whatever the
\* number of completed probes.
exploitPickAlways(c, h, g, headID, pos, compl) ==
    LET num == Min2(2 * c.Budget + 3 * compl, 5 * c.Budget)
        den == 10 * c.Budget
    IN UNION {
            IF Len(lst) = 0 THEN {[prefix |-> NoPrefix, pos |-> pos]}
            ELSE {IF v * den < RngMod * num
                  THEN [prefix |-> lst[Min2((v * den * Len(lst)) \div (RngMod * num), Len(lst) - 1) + 1],
                        pos |-> Advance(g, headID, pos, 1)]
                  ELSE [prefix |-> NoPrefix, pos |-> Advance(g, headID, pos, 1)]
                    : v \in DrawVals(g, headID, pos, 0)}
            : lst \in getExploitationPrefixes(h)}

\* The exploitation step of submitOneTask: the possible [prefix, pos];
\* prefix is NoPrefix when the task is not an exploitation task.
\* exploitRate = 0.2 + 0.3 * completed / budget, at most 0.5, is
\* num / (10 * budget).
exploitPick(c, h, g, headID, pos, compl) ==
    LET num == Min2(2 * c.Budget + 3 * compl, 5 * c.Budget)
        den == 10 * c.Budget
    IN IF ~(compl > ExploreAfter) THEN {[prefix |-> NoPrefix, pos |-> pos]}
       ELSE UNION {
            IF Len(lst) = 0 THEN {[prefix |-> NoPrefix, pos |-> pos]}
            ELSE {IF v * den < RngMod * num
                  THEN [prefix |-> lst[Min2((v * den * Len(lst)) \div (RngMod * num), Len(lst) - 1) + 1],
                        pos |-> Advance(g, headID, pos, 1)]
                  ELSE [prefix |-> NoPrefix, pos |-> Advance(g, headID, pos, 1)]
                    : v \in DrawVals(g, headID, pos, 0)}
            : lst \in getExploitationPrefixes(h)}

\* Engine.submitOneTask up to its select: the possible
\* [task, heads, pos, seen]; task.prefix is NoPrefix when the call returns
\* without a task.
submitOneTask(c, nd, hs, h, g, pos, seen, compl, headID) ==
    LET hd == headID % c.Heads
        chosen == UNION {
            IF IsValid(e.prefix) THEN {[prefix |-> e.prefix, pos |-> e.pos, heads |-> hs]}
            ELSE {[prefix |-> sel.prefix, pos |-> sel.pos,
                   heads |-> IF IsValid(sel.prefix) THEN SetFocus(hs, hd, sel.prefix, c.Beam) ELSE hs]
                    : sel \in SelectNextPrefix(hs, nd, g, hd, e.pos)}
            : e \in exploitPick(c, h, g, hd, pos, compl)}
    IN UNION {
        IF ~IsValid(ch.prefix)
        THEN {[task |-> [headID |-> headID, prefix |-> NoPrefix, ip |-> Addr(NoPrefix)],
               heads |-> ch.heads, pos |-> ch.pos, seen |-> seen]}
        ELSE {[task |-> [headID |-> headID, prefix |-> ch.prefix, ip |-> s.ip],
               heads |-> ch.heads, pos |-> s.pos, seen |-> s.seen]
                : s \in sampleIPWithDedup(ch.prefix, g, hd, ch.pos, seen)}
        : ch \in chosen}

(***************************************************************************)
(* engine.Engine: Run, schedule and the workers, as actions                *)
(*                                                                         *)
(* pc follows the goroutine that calls New and Run:                        *)
(*   "new"  before engine.New          "run"    before Engine.Run          *)
(*   "fill" in schedule's initial fill "loop"   at the event loop's test   *)
(*   "submit" at the replacement submitOneTask of the event loop           *)
(*   "close" after schedule returned   "wait"   at wg.Wait()               *)
(*   "drain" in the final drain        "returned" Run has returned         *)
(* A worker is [st, d]: "idle" at the receive from e.tasks, "send" at the  *)
(* select that sends d on e.done, "exit" when the goroutine has ended.     *)
(***************************************************************************)
NoDone == [task |-> [headID |-> 0, prefix |-> NoPrefix, ip |-> Addr(NoPrefix)],
           ok |-> FALSE, ms |-> 0]

Tree == [roots |-> roots, nodes |-> nodes]

Heads == [focus |-> focus, history |-> history]

Collector == [items |-> items, ipSeen |-> ipSeen]

\* Faulty channels: a buffer of one slot per worker.
ChanCapPerWorker == cfg.Concurrency

\* cap(e.tasks) = cap(e.done) = Concurrency * 2.
ChanCap == cfg.Concurrency * 2

\* A faulty initialBatch: not capped by the budget.
InitialBatchUncapped == cfg.Concurrency * 2

\* schedule's initialBatch.
InitialBatch == Min2(cfg.Concurrency * 2, cfg.Budget)

\* The readings of time.Now().UnixNano() in Run: positive numbers.
ClockMax == 2

ClockValues == 1..ClockMax

\* engine.New.
New ==
    /\ pc = "new"
    /\ cfg' = ApplyDefaults(rawCfg)
    /\ pc' = "run"
    /\ UNCHANGED <<seed, offered, updaters, updated, passes, callers, made, rawCfg, cidrs, mock, schedErr, retErr, response, ctxErr, roots,
                   nodes, items, ipSeen, focus, history, rng, rngPos, seenIPs,
                   tasks, done, tasksClosed, doneClosed, workers, submitted,
                   completed, lastSplit, fillI, runNo, prevTop>>

\* A faulty Run: the test for an empty prefix list is missing.
RunStartWithoutEmptyCheck ==
    /\ pc = "run"
    /\ LET prefixes == loadPrefixes(cidrs) IN
       IF Validate(cfg) # "nil"
       THEN /\ retErr' = Validate(cfg)
            /\ pc' = "returned"
            /\ UNCHANGED <<seed, roots, nodes, items, ipSeen, focus, history, rngPos, workers>>
       ELSE /\ \E t \in ClockValues : seed' = (IF cfg.Seed = 0 THEN t ELSE cfg.Seed)
            /\ roots' = NewArmTree(prefixes).roots
            /\ nodes' = NewArmTree(prefixes).nodes
            /\ focus' = NewHeadManager(cfg).focus
            /\ history' = NewHeadManager(cfg).history
            /\ rngPos' = [h \in 0..(cfg.Heads - 1) |-> 0]
            /\ items' = NewTopNCollector.items
            /\ ipSeen' = NewTopNCollector.ipSeen
            /\ workers' = [w \in 1..cfg.Concurrency |-> [st |-> "idle", d |-> NoDone]]
            /\ pc' = "fill"
            /\ UNCHANGED retErr
    /\ UNCHANGED <<offered, updaters, updated, passes, callers, made, rawCfg, cfg, cidrs, mock, schedErr, response, ctxErr, rng, seenIPs,
                   tasks, done, tasksClosed, doneClosed, submitted, completed,
                   lastSplit, fillI, runNo, prevTop>>

\* Engine.Run up to the call of schedule: validation, loading the prefixes,
\* building the tree, the heads, the collector and the channels, starting
\* the workers.
RunStart ==
    /\ pc = "run"
    /\ LET prefixes == loadPrefixes(cidrs) IN
       IF Validate(cfg) # "nil"
       THEN /\ retErr' = Validate(cfg)
            /\ pc' = "returned"
            /\ UNCHANGED <<seed, roots, nodes, items, ipSeen, focus, history, rngPos, workers>>
       ELSE IF Len(prefixes) = 0
       THEN /\ retErr' = "noCIDR"
            /\ pc' = "returned"
            /\ UNCHANGED <<seed, roots, nodes, items, ipSeen, focus, history, rngPos, workers>>
       ELSE /\ \E t \in ClockValues : seed' = (IF cfg.Seed = 0 THEN t ELSE cfg.Seed)
            /\ roots' = NewArmTree(prefixes).roots
            /\ nodes' = NewArmTree(prefixes).nodes
            /\ focus' = NewHeadManager(cfg).focus
            /\ history' = NewHeadManager(cfg).history
            /\ rngPos' = [h \in 0..(cfg.Heads - 1) |-> 0]
            /\ items' = NewTopNCollector.items
            /\ ipSeen' = NewTopNCollector.ipSeen
            /\ workers' = [w \in 1..cfg.Concurrency |-> [st |-> "idle", d |-> NoDone]]
            /\ pc' = "fill"
            /\ UNCHANGED retErr
    /\ UNCHANGED <<offered, updaters, updated, passes, callers, made, rawCfg, cfg, cidrs, mock, schedErr, response, ctxErr, rng, seenIPs,
                   tasks, done, tasksClosed, doneClosed, submitted, completed,
                   lastSplit, fillI, runNo, prevTop>>

\* The effect of one submitOneTask(headID) outcome o whose select sends.
Sent(o) ==
    /\ focus' = o.heads.focus
    /\ history' = o.heads.history
    /\ rngPos' = [rngPos EXCEPT ![o.task.headID % cfg.Heads] = o.pos]
    /\ seenIPs' = o.seen
    /\ IF IsValid(o.task.prefix)
       THEN tasks' = Append(tasks, o.task) /\ submitted' = submitted + 1
       ELSE UNCHANGED <<tasks, submitted>>

\* The effect of one submitOneTask(headID) outcome o whose select takes
\* ctx.Done(): the focus, the generator and the dedup set have changed, no
\* task is sent.
NotSent(o) ==
    /\ focus' = o.heads.focus
    /\ history' = o.heads.history
    /\ rngPos' = [rngPos EXCEPT ![o.task.headID % cfg.Heads] = o.pos]
    /\ seenIPs' = o.seen
    /\ UNCHANGED <<tasks, submitted>>

SubmitOutcomes(headID) ==
    submitOneTask(cfg, nodes, Heads, items, rng, rngPos[headID % cfg.Heads],
                  seenIPs, completed, headID)

\* One iteration of schedule's initial fill.
FillSubmit ==
    /\ pc = "fill"
    /\ fillI < InitialBatch
    /\ \E o \in SubmitOutcomes(fillI % cfg.Heads) :
         \/ /\ ~IsValid(o.task.prefix) \/ Len(tasks) < ChanCap
            /\ Sent(o)
            /\ fillI' = fillI + 1
            /\ pc' = IF fillI + 1 < InitialBatch THEN "fill" ELSE "loop"
            /\ UNCHANGED schedErr
         \/ /\ IsValid(o.task.prefix)
            /\ ctxErr # "nil"
            /\ NotSent(o)
            /\ schedErr' = ctxErr
            /\ pc' = "close"
            /\ UNCHANGED fillI
    /\ UNCHANGED <<seed, offered, updaters, updated, passes, callers, made, rawCfg, cfg, cidrs, mock, retErr, response, ctxErr, roots, nodes,
                   items, ipSeen, rng, done, tasksClosed, doneClosed, workers,
                   completed, lastSplit, runNo, prevTop>>

\* The event loop's test fails: schedule returns nil.
LoopExit ==
    /\ pc = "loop"
    /\ ~(completed < cfg.Budget)
    /\ schedErr' = "nil"
    /\ pc' = "close"
    /\ UNCHANGED <<seed, offered, updaters, updated, passes, callers, made, rawCfg, cfg, cidrs, mock, retErr, response, ctxErr, roots, nodes,
                   items, ipSeen, focus, history, rng, rngPos, seenIPs, tasks, done,
                   tasksClosed, doneClosed, workers, submitted, completed, lastSplit,
                   fillI, runNo, prevTop>>

\* The event loop's select takes ctx.Done(): schedule returns ctx.Err().
LoopCancel ==
    /\ pc = "loop"
    /\ completed < cfg.Budget
    /\ ctxErr # "nil"
    /\ schedErr' = ctxErr
    /\ pc' = "close"
    /\ UNCHANGED <<seed, offered, updaters, updated, passes, callers, made, rawCfg, cfg, cidrs, mock, retErr, response, ctxErr, roots, nodes,
                   items, ipSeen, focus, history, rng, rngPos, seenIPs, tasks, done,
                   tasksClosed, doneClosed, workers, submitted, completed, lastSplit,
                   fillI, runNo, prevTop>>
\* The record of a split pass (trySplit and the rebalancing of the heads):
\* the value of completed at which it ran and the samples that the arm of the
\* triggering result had in the tree handed to trySplit.
SplitPass(at, nd, prefix) == [at |-> at, armSamples |-> nd[Masked(prefix)].samples]

\* A faulty event loop: lastSplit is not moved after a split pass.
LoopRecvKeepingLastSplit ==
    /\ pc = "loop"
    /\ completed < cfg.Budget
    /\ done # <<>>
    /\ \E r \in {processOneResult(Tree, Collector, cfg.TopN, Head(done), TimeoutMS)} :
          /\ done' = Tail(done)
          /\ completed' = completed + 1
          /\ roots' = r.tree.roots
          /\ items' = r.topN.items
          /\ ipSeen' = r.topN.ipSeen
          /\ IF completed + 1 - lastSplit >= cfg.SplitInterval
             THEN /\ \E o \in trySplit(r.tree.nodes, Heads, cfg) :
                        /\ nodes' = o.nodes
                        /\ focus' = o.heads.focus
                        /\ history' = o.heads.history
                  /\ passes' = Append(passes, SplitPass(completed + 1, r.tree.nodes,
                                                         Head(done).task.prefix))
                  /\ UNCHANGED lastSplit
             ELSE /\ nodes' = r.tree.nodes
                  /\ UNCHANGED <<focus, history, lastSplit, passes>>
          /\ pc' = IF submitted < cfg.Budget THEN "submit" ELSE "loop"
    /\ offered' = Offer(offered, Head(done).task.ip, ScoreOf(Head(done), TimeoutMS))
    /\ updated' = Returned(updated, Masked(Head(done).task.prefix), Head(done).ok)
    /\ UNCHANGED <<seed, updaters, callers, made, rawCfg, cfg, cidrs, mock, schedErr, retErr, response, ctxErr, rng,
                   rngPos, seenIPs, tasks, tasksClosed, doneClosed, workers,
                   submitted, fillI, runNo, prevTop>>

\* The event loop's select takes a result: processOneResult, the count, the
\* split pass when due.  The replacement task follows at "submit".
LoopRecv ==
    /\ pc = "loop"
    /\ completed < cfg.Budget
    /\ done # <<>>
    /\ \E r \in {processOneResult(Tree, Collector, cfg.TopN, Head(done), TimeoutMS)} :
          /\ done' = Tail(done)
          /\ completed' = completed + 1
          /\ roots' = r.tree.roots
          /\ items' = r.topN.items
          /\ ipSeen' = r.topN.ipSeen
          /\ IF completed + 1 - lastSplit >= cfg.SplitInterval
             THEN /\ \E o \in trySplit(r.tree.nodes, Heads, cfg) :
                        /\ nodes' = o.nodes
                        /\ focus' = o.heads.focus
                        /\ history' = o.heads.history
                  /\ passes' = Append(passes, SplitPass(completed + 1, r.tree.nodes,
                                                         Head(done).task.prefix))
                  /\ lastSplit' = completed + 1
             ELSE /\ nodes' = r.tree.nodes
                  /\ UNCHANGED <<focus, history, lastSplit, passes>>
          /\ pc' = IF submitted < cfg.Budget THEN "submit" ELSE "loop"
    /\ offered' = Offer(offered, Head(done).task.ip, ScoreOf(Head(done), TimeoutMS))
    /\ updated' = Returned(updated, Masked(Head(done).task.prefix), Head(done).ok)
    /\ UNCHANGED <<seed, updaters, callers, made, rawCfg, cfg, cidrs, mock, schedErr, retErr, response, ctxErr, rng,
                   rngPos, seenIPs, tasks, tasksClosed, doneClosed, workers,
                   submitted, fillI, runNo, prevTop>>

\* A faulty event loop: no task replaces the one whose result was taken.
LoopSubmitNothing ==
    /\ pc = "submit"
    /\ pc' = "loop"
    /\ UNCHANGED <<seed, offered, updaters, updated, passes, callers, made, rawCfg, cfg, cidrs, mock, schedErr, retErr, response, ctxErr, roots,
                   nodes, items, ipSeen, focus, history, rng, rngPos, seenIPs, tasks,
                   done, tasksClosed, doneClosed, workers, submitted, completed,
                   lastSplit, fillI, runNo, prevTop>>

\* The replacement submitOneTask of the event loop; its error is ignored.
LoopSubmit ==
    /\ pc = "submit"
    /\ \E o \in SubmitOutcomes(submitted % cfg.Heads) :
         \/ /\ ~IsValid(o.task.prefix) \/ Len(tasks) < ChanCap
            /\ Sent(o)
         \/ /\ IsValid(o.task.prefix)
            /\ ctxErr # "nil"
            /\ NotSent(o)
    /\ pc' = "loop"
    /\ UNCHANGED <<seed, offered, updaters, updated, passes, callers, made, rawCfg, cfg, cidrs, mock, schedErr, retErr, response, ctxErr, roots,
                   nodes, items, ipSeen, rng, done, tasksClosed, doneClosed, workers,
                   completed, lastSplit, fillI, runNo, prevTop>>

\* close(e.tasks).
CloseTasks ==
    /\ pc = "close"
    /\ tasksClosed' = TRUE
    /\ pc' = "wait"
    /\ UNCHANGED <<seed, offered, updaters, updated, passes, callers, made, rawCfg, cfg, cidrs, mock, schedErr, retErr, response, ctxErr, roots,
                   nodes, items, ipSeen, focus, history, rng, rngPos, seenIPs, tasks,
                   done, doneClosed, workers, submitted, completed, lastSplit,
                   fillI, runNo, prevTop>>

\* A faulty cleanup: close(e.done) without waiting for the workers.
WaitWorkersNotWaiting ==
    /\ pc = "wait"
    /\ doneClosed' = TRUE
    /\ pc' = "drain"
    /\ UNCHANGED <<seed, offered, updaters, updated, passes, callers, made, rawCfg, cfg, cidrs, mock, schedErr, retErr, response, ctxErr, roots,
                   nodes, items, ipSeen, focus, history, rng, rngPos, seenIPs, tasks,
                   done, tasksClosed, workers, submitted, completed, lastSplit,
                   fillI, runNo, prevTop>>

\* wg.Wait() returns once every worker has ended; then close(e.done).
WaitWorkers ==
    /\ pc = "wait"
    /\ \A w \in DOMAIN workers : workers[w].st = "exit"
    /\ doneClosed' = TRUE
    /\ pc' = "drain"
    /\ UNCHANGED <<seed, offered, updaters, updated, passes, callers, made, rawCfg, cfg, cidrs, mock, schedErr, retErr, response, ctxErr, roots,
                   nodes, items, ipSeen, focus, history, rng, rngPos, seenIPs, tasks,
                   done, tasksClosed, workers, submitted, completed, lastSplit,
                   fillI, runNo, prevTop>>

\* One iteration of the final drain of e.done.
Drain ==
    /\ pc = "drain"
    /\ done # <<>>
    /\ LET r == processOneResult(Tree, Collector, cfg.TopN, Head(done), TimeoutMS)
       IN /\ done' = Tail(done)
          /\ roots' = r.tree.roots
          /\ nodes' = r.tree.nodes
          /\ items' = r.topN.items
          /\ ipSeen' = r.topN.ipSeen
    /\ offered' = Offer(offered, Head(done).task.ip, ScoreOf(Head(done), TimeoutMS))
    /\ updated' = Returned(updated, Masked(Head(done).task.prefix), Head(done).ok)
    /\ UNCHANGED <<seed, updaters, passes, callers, made, rawCfg, cfg, cidrs, mock, pc, schedErr, retErr, response, ctxErr,
                   focus, history, rng, rngPos, seenIPs, tasks, tasksClosed,
                   doneClosed, workers, submitted, completed, lastSplit, fillI,
                   runNo, prevTop>>

\* A faulty filter: Run hands every error of schedule to its caller.
RunErrorUnfiltered(err) == err

\* The error Run returns for the error err of schedule.
RunError(err) == IF err # "nil" /\ err # "canceled" /\ err # "deadline" THEN err ELSE "nil"

\* The drain is over: Run returns.
Return ==
    /\ pc = "drain"
    /\ done = <<>>
    /\ retErr' = RunError(schedErr)
    /\ response' = IF RunError(schedErr) = "nil" THEN Snapshot(items) ELSE <<>>
    /\ pc' = "returned"
    /\ UNCHANGED <<seed, offered, updaters, updated, passes, callers, made, rawCfg, cfg, cidrs, mock, schedErr, ctxErr, roots, nodes, items,
                   ipSeen, focus, history, rng, rngPos, seenIPs, tasks, done,
                   tasksClosed, doneClosed, workers, submitted, completed,
                   lastSplit, fillI, runNo, prevTop>>

\* Engine.worker: receive a task and probe its address.
WorkerProbe(w) ==
    /\ workers[w].st = "idle"
    /\ tasks # <<>>
    /\ \E res \in ProbeResults(mock, Head(tasks).ip) :
         workers' = [workers EXCEPT ![w] =
                        [st |-> "send", d |-> [task |-> Head(tasks), ok |-> res.ok, ms |-> res.ms]]]
    /\ tasks' = Tail(tasks)
    /\ UNCHANGED <<seed, offered, updaters, updated, passes, callers, made, rawCfg, cfg, cidrs, mock, pc, schedErr, retErr, response, ctxErr,
                   roots, nodes, items, ipSeen, focus, history, rng, rngPos, seenIPs,
                   done, tasksClosed, doneClosed, submitted, completed, lastSplit,
                   fillI, runNo, prevTop>>

\* Engine.worker: the range over e.tasks ends (closed and empty).
WorkerEnd(w) ==
    /\ workers[w].st = "idle"
    /\ tasks = <<>>
    /\ tasksClosed
    /\ workers' = [workers EXCEPT ![w] = [st |-> "exit", d |-> NoDone]]
    /\ UNCHANGED <<seed, offered, updaters, updated, passes, callers, made, rawCfg, cfg, cidrs, mock, pc, schedErr, retErr, response, ctxErr,
                   roots, nodes, items, ipSeen, focus, history, rng, rngPos, seenIPs,
                   tasks, done, tasksClosed, doneClosed, submitted, completed,
                   lastSplit, fillI, runNo, prevTop>>

\* Engine.worker: the select sends the result on e.done.
WorkerSend(w) ==
    /\ workers[w].st = "send"
    /\ Len(done) < ChanCap
    /\ done' = Append(done, workers[w].d)
    /\ workers' = [workers EXCEPT ![w] = [st |-> "idle", d |-> NoDone]]
    /\ UNCHANGED <<seed, offered, updaters, updated, passes, callers, made, rawCfg, cfg, cidrs, mock, pc, schedErr, retErr, response, ctxErr,
                   roots, nodes, items, ipSeen, focus, history, rng, rngPos, seenIPs,
                   tasks, tasksClosed, doneClosed, submitted, completed, lastSplit,
                   fillI, runNo, prevTop>>

\* Engine.worker: the select takes ctx.Done(); the worker returns and its
\* result is dropped.
WorkerCancelled(w) ==
    /\ workers[w].st = "send"
    /\ ctxErr # "nil"
    /\ workers' = [workers EXCEPT ![w] = [st |-> "exit", d |-> NoDone]]
    /\ UNCHANGED <<seed, offered, updaters, updated, passes, callers, made, rawCfg, cfg, cidrs, mock, pc, schedErr, retErr, response, ctxErr,
                   roots, nodes, items, ipSeen, focus, history, rng, rngPos, seenIPs,
                   tasks, done, tasksClosed, doneClosed, submitted, completed,
                   lastSplit, fillI, runNo, prevTop>>

\* The caller cancels the context, or its deadline expires.
Cancel ==
    /\ pc \in {"run", "fill", "loop", "submit", "close", "wait", "drain"}
    /\ ctxErr = "nil"
    /\ ctxErr' \in {"canceled", "deadline"}
    /\ UNCHANGED <<seed, offered, updaters, updated, passes, callers, made, rawCfg, cfg, cidrs, mock, pc, schedErr, retErr, response, roots,
                   nodes, items, ipSeen, focus, history, rng, rngPos, seenIPs, tasks,
                   done, tasksClosed, doneClosed, workers, submitted, completed,
                   lastSplit, fillI, runNo, prevTop>>

(***************************************************************************)
(* The runs that are checked                                               *)
(***************************************************************************)
RunBudget == 3

RunConcurrency == 1

RunHeads == 2

RunTopN == 2

\* 10.0.0.0 as a number.
Net10 == 10 * (2 ^ 24)

P4(addr, bits) == [fam |-> 4, addr |-> addr, bits |-> bits]

\* Small valid configurations: a split pass after every second result,
\* splitting one bit at a time down to /31, every arm with a sample being
\* splittable.
RunConfigOf(budget, concurrency) ==
    [Budget |-> budget, TopN |-> RunTopN, Concurrency |-> concurrency,
     Heads |-> RunHeads, Beam |-> 1, SplitStepV4 |-> 1, SplitStepV6 |-> 4,
     MinSamplesSplit |-> 1, MaxBitsV4 |-> 31, MaxBitsV6 |-> 56, Seed |-> 1,
     SplitInterval |-> 2, DiversityWeight |-> 30]

RunConfigs == {RunConfigOf(b, w) : b \in 1..RunBudget, w \in 1..RunConcurrency}

\* The requests: no CIDR at all, and 10.0.0.0/30 given twice, once with
\* host bits set.
RunCIDRs == {<<>>, <<P4(Net10 + 1, 30), P4(Net10, 30)>>}

InitWith(c, req, m, g) ==
    /\ rawCfg = c
    /\ cfg = c
    /\ cidrs = req
    /\ mock = m
    /\ rng = g
    /\ pc = "new"
    /\ schedErr = "nil"
    /\ retErr = "nil"
    /\ response = <<>>
    /\ ctxErr = "nil"
    /\ roots = <<>>
    /\ nodes = <<>>
    /\ items = <<>>
    /\ ipSeen = <<>>
    /\ focus = <<>>
    /\ history = <<>>
    /\ rngPos = <<>>
    /\ seenIPs = {}
    /\ tasks = <<>>
    /\ done = <<>>
    /\ tasksClosed = FALSE
    /\ doneClosed = FALSE
    /\ workers = <<>>
    /\ submitted = 0
    /\ completed = 0
    /\ lastSplit = 0
    /\ fillI = 0
    /\ seed = 0
    /\ offered = <<>>
    /\ passes = <<>> /\ callers = <<>> /\ made = <<>>
    /\ updaters = <<>>
    /\ updated = <<>>
    /\ runNo = 1
    /\ prevTop = <<>>

Init == \E c \in RunConfigs, req \in RunCIDRs : InitWith(c, req, "quad", FreeDraws)

Next ==
    \/ New
    \/ RunStart
    \/ FillSubmit
    \/ LoopExit
    \/ LoopCancel
    \/ LoopRecv
    \/ LoopSubmit
    \/ CloseTasks
    \/ WaitWorkers
    \/ Drain
    \/ Return
    \/ \E w \in DOMAIN workers : WorkerProbe(w)
    \/ \E w \in DOMAIN workers : WorkerEnd(w)
    \/ \E w \in DOMAIN workers : WorkerSend(w)
    \/ \E w \in DOMAIN workers : WorkerCancelled(w)
    \/ Cancel

Spec == Init /\ [][Next]_vars

(***************************************************************************)
(* Properties of Engine.Run (specification Spec)                           *)
(***************************************************************************)
\* Run got past validation and the loading of the prefixes.
Started == Validate(cfg) = "nil" /\ Len(loadPrefixes(cidrs)) > 0

\* C1: when Run has returned after a run that was never cancelled, the sum
\* of samples over all arms equals the budget, and so do submitted and
\* completed: every dispatched probe was recorded exactly once.
C1_AllProbesRecorded ==
    (pc = "returned" /\ Started /\ ctxErr = "nil") =>
        /\ TotalSamples(nodes) = cfg.Budget
        /\ submitted = cfg.Budget
        /\ completed = cfg.Budget

\* A run of the full budget that was never cancelled has returned, with
\* failures among its results and arms split on the way.
C1_Witness ==
    /\ pc = "returned" /\ Started /\ ctxErr = "nil"
    /\ cfg.Budget = RunBudget
    /\ \E p \in DOMAIN nodes : nodes[p].isSplit
    /\ \E p \in DOMAIN nodes : nodes[p].failures > 0

\* C3: whenever the context was cancelled or its deadline expired after
\* validation, Run returns the snapshot of the collector and a nil error.
C3_CancelIsNotAnError ==
    (pc = "returned" /\ Started /\ ctxErr # "nil") =>
        /\ retErr = "nil"
        /\ response = Snapshot(items)

\* Run has returned after schedule ended with DeadlineExceeded, with a
\* result in the top-N.
C3_Witness ==
    /\ pc = "returned" /\ Started
    /\ schedErr = "deadline"
    /\ Len(response) > 0

\* C6: with an empty deduplicated prefix list, Run returns an error and has
\* created no tree, started no worker and dispatched no probe.
C6_NoInputIsAnError ==
    (Len(loadPrefixes(cidrs)) = 0 /\ pc \notin {"new", "run"}) =>
        /\ pc = "returned"
        /\ retErr # "nil"
        /\ roots = <<>> /\ nodes = <<>>
        /\ workers = <<>>
        /\ tasks = <<>> /\ submitted = 0

\* Run has returned the no-CIDR error for a valid configuration.
C6_Witness ==
    /\ pc = "returned"
    /\ Validate(cfg) = "nil"
    /\ cidrs = <<>>
    /\ retErr = "noCIDR"

\* What a failed result d must do to the tree and the collector.
FailureRecorded(d) ==
    LET p == d.task.prefix IN
    /\ nodes'[p].failures = nodes[p].failures + 1
    /\ nodes'[p].samples = nodes[p].samples + 1
    /\ nodes'[p].successes = nodes[p].successes
    /\ \A q \in DOMAIN nodes \ {p} :
          nodes'[q].samples = nodes[q].samples /\ nodes'[q].failures = nodes[q].failures
    /\ items' = Consider(Collector, cfg.TopN,
                    [ip |-> d.task.ip, prefix |-> p, ok |-> FALSE,
                     score |-> 2 * TimeoutMS]).items

\* C7: a failed probe result taken by the event loop is recorded as one
\* failure on the arm of the task's prefix and on no other arm, is offered
\* to the collector with score 2 * timeout, counts toward completed, and
\* neither ends schedule nor sets an error; the scheduler then submits the
\* next task if submitted < budget (unless the context is cancelled).  A
\* failed result taken by the final drain is recorded the same way.
C7_FailureKeepsGoing ==
    [][/\ (pc = "loop" /\ done # <<>> /\ done' = Tail(done) /\ ~Head(done).ok) =>
            /\ FailureRecorded(Head(done))
            /\ completed' = completed + 1
            /\ schedErr' = schedErr /\ retErr' = retErr
            /\ pc' = IF submitted < cfg.Budget THEN "submit" ELSE "loop"
       /\ (pc = "drain" /\ done # <<>> /\ done' = Tail(done) /\ ~Head(done).ok) =>
            /\ FailureRecorded(Head(done))
            /\ retErr' = retErr
       /\ (pc = "submit" /\ pc' = "loop" /\ ctxErr = "nil") =>
            submitted' = submitted + 1]_vars

\* A failed result has been recorded and the replacement task submitted
\* after it.
C7_Witness ==
    /\ pc = "loop"
    /\ submitted > InitialBatch
    /\ \E p \in DOMAIN nodes : nodes[p].failures > 0
    /\ \E i \in 1..Len(items) : ~items[i].ok /\ items[i].score = 2 * TimeoutMS

\* C8 (as claimed): once an arm is split its samples counter never changes
\* again.
C8_SplitArmFrozen ==
    [][\A p \in DOMAIN nodes :
          (nodes[p].isSplit /\ p \in DOMAIN nodes') => nodes'[p].samples = nodes[p].samples]_vars

\* C13: the budget is never exceeded: in every state completed <= submitted
\* <= Budget, and the samples of all arms together are at most the number of
\* tasks submitted so far, also after a cancellation and the final drain.
C13_BudgetNeverExceeded ==
    /\ completed <= submitted
    /\ submitted <= cfg.Budget
    /\ TotalSamples(nodes) <= submitted

\* A cancelled run has returned after the drain recorded a result the event
\* loop had not counted, with the whole budget submitted.
C13_Witness ==
    /\ pc = "returned" /\ Started
    /\ ctxErr # "nil"
    /\ submitted = cfg.Budget
    /\ completed < TotalSamples(nodes)

\* C20: the scheduler submits min(2W, B) tasks before it consumes a result
\* and afterwards at most one task per consumed result, so that at most
\* min(2W, B) tasks are submitted and not completed, neither channel ever
\* holds more than 2W items, and the scheduler's send on tasks finds room
\* whenever the context is not cancelled.
C20_PipelineBounded ==
    /\ pc = "fill" => completed = 0
    /\ (pc = "loop" /\ completed = 0) => submitted = InitialBatch
    /\ submitted <= InitialBatch + completed
    /\ submitted - completed <= InitialBatch
    /\ Len(tasks) <= 2 * cfg.Concurrency
    /\ Len(done) <= 2 * cfg.Concurrency
    /\ (pc \in {"fill", "submit"} /\ ctxErr = "nil") => Len(tasks) < ChanCap

\* The event loop has replaced a consumed result by a new task that filled
\* the tasks channel, with min(2W, B) tasks submitted and not completed.
C20_Witness ==
    /\ pc = "loop" /\ ctxErr = "nil"
    /\ completed > 0
    /\ submitted - completed = InitialBatch
    /\ Len(tasks) = 2 * cfg.Concurrency

(***************************************************************************)
(* The collector on its own (specification SpecTopN): any sequence of      *)
(* Consider calls on a collector of any small capacity.                    *)
(***************************************************************************)
TopNMax == 3

TopNScores == 3

TopNIPs == 4

InitTopN ==
    \E n \in 0..TopNMax :
        InitWith([RunConfigOf(1, 1) EXCEPT !.TopN = n], <<>>, "quad", FreeDraws)

\* One call Consider(r) with any IP and score; the largest score is the one
\* of a failed probe.
ConsiderCall ==
    /\ \E a \in 1..TopNIPs, s \in 1..TopNScores :
          LET r == [ip |-> [fam |-> 4, addr |-> Net10 + a], prefix |-> P4(Net10, 24),
                    ok |-> s < TopNScores, score |-> s]
              c == Consider(Collector, cfg.TopN, r)
          IN /\ items' = c.items
             /\ ipSeen' = c.ipSeen
             /\ offered' = Offer(offered, r.ip, r.score)
    /\ UNCHANGED <<seed, updaters, updated, passes, callers, made, rawCfg, cfg, cidrs, mock, pc, schedErr, retErr, response, ctxErr,
                   roots, nodes, focus, history, rng, rngPos, seenIPs, tasks, done,
                   tasksClosed, doneClosed, workers, submitted, completed, lastSplit,
                   fillI, runNo, prevTop>>

NextTopN == ConsiderCall

SpecTopN == InitTopN /\ [][NextTopN]_vars

\* C2: after any sequence of Consider calls, Snapshot is sorted by score
\* ascending, is no longer than the capacity, holds no IP twice, and is a
\* rearrangement of the collected items.
C2_SnapshotSortedBoundedDistinct ==
    LET snap == Snapshot(items) IN
    /\ Len(snap) <= cfg.TopN
    /\ \A i, j \in 1..Len(snap) : i < j => snap[i].score <= snap[j].score
    /\ \A i, j \in 1..Len(snap) : i # j => snap[i].ip # snap[j].ip
    /\ Len(snap) = Len(items) /\ Range(snap) = Range(items)

\* A full collector of the largest capacity, holding equal scores, whose
\* heap order is not the sorted order.
C2_Witness ==
    /\ cfg.TopN = TopNMax
    /\ Len(items) = TopNMax
    /\ Snapshot(items) # items
    /\ \E i, j \in 1..Len(items) : i # j /\ items[i].score = items[j].score

\* The results Consider is called with.
TopNInputs ==
    {[ip |-> [fam |-> 4, addr |-> Net10 + a], prefix |-> P4(Net10, 24),
      ok |-> s < TopNScores, score |-> s] : a \in 1..TopNIPs, s \in 1..TopNScores}

\* C17: on any collector reached by Consider calls, Consider(r) does exactly
\* one of: (a) the IP of r is kept: its entry is replaced by r iff r scores
\* lower, else nothing changes; (b) the IP is not kept and there is room: r
\* is added; (c) the IP is not kept and the collector is full: iff r scores
\* lower than the largest kept score, one entry of the largest score is
\* removed and r is added, else nothing changes.  No entry leaves otherwise.
C17_ConsiderCases ==
    \A r \in TopNInputs :
        LET kept == Range(items)
            after == Consider(Collector, cfg.TopN, r)
            keptAfter == Range(after.items)
            same == {e \in kept : e.ip = r.ip}
            worst == {e \in kept : \A f \in kept : f.score <= e.score}
        IN IF same # {}
           THEN \A e \in same :
                   IF r.score < e.score
                   THEN /\ keptAfter = (kept \ {e}) \cup {r}
                        /\ Len(after.items) = Len(items)
                   ELSE after = Collector
           ELSE IF Len(items) < cfg.TopN
           THEN /\ keptAfter = kept \cup {r}
                /\ Len(after.items) = Len(items) + 1
           ELSE IF \E e \in worst : r.score < e.score
           THEN /\ \E e \in worst : keptAfter = (kept \ {e}) \cup {r}
                /\ Len(after.items) = Len(items)
           ELSE after = Collector

\* A full collector that has turned an IP away or evicted it, and that the
\* next result can change in each of the ways (a) and (c).
C17_Witness ==
    /\ cfg.TopN > 0 /\ Len(items) = cfg.TopN
    /\ DOMAIN offered # DOMAIN ipSeen
    /\ \E r \in TopNInputs : r.ip \in DOMAIN ipSeen /\ r.score < items[ipSeen[r.ip]].score
    /\ \E r \in TopNInputs : r.ip \notin DOMAIN ipSeen /\ r.score < items[1].score

\* The scores of a history of offers in ascending order.
RECURSIVE SortedScores(_, _)
SortedScores(m, ips) ==
    IF ips = {} THEN <<>>
    ELSE LET ip == CHOOSE a \in ips : \A b \in ips : m[a] <= m[b]
         IN <<m[ip]>> \o SortedScores(m, ips \ {ip})

\* C18: after any sequence of Consider calls the scores of Snapshot are,
\* as a multiset, the min(N, number of distinct IPs) smallest of the per-IP
\* least scores of all results considered so far; so an IP that was evicted
\* is kept again once it is offered with a low enough score.
C18_SnapshotIsBestOfHistory ==
    LET snap == Snapshot(items)
        k == Min2(cfg.TopN, Cardinality(DOMAIN offered))
    IN [i \in 1..Len(snap) |-> snap[i].score]
           = SubSeq(SortedScores(offered, DOMAIN offered), 1, k)

\* More IPs have been offered than fit, and an IP that is not kept has the
\* same least score as a kept one.
C18_Witness ==
    /\ cfg.TopN > 0
    /\ Cardinality(DOMAIN offered) > cfg.TopN
    /\ \E a \in DOMAIN ipSeen, b \in DOMAIN offered \ DOMAIN ipSeen :
           offered[b] = items[ipSeen[a]].score

\* C19: after every Consider the items are in max-heap order (no child
\* scores higher than its parent, so items[0] has the largest score), ipSeen
\* has exactly one key per kept entry and maps the IP of the entry at index
\* i to i, and Best returns an entry with the score of Snapshot()[0].
C19_HeapAndIndexConsistent ==
    /\ \A i \in 2..Len(items) : items[i \div 2].score >= items[i].score
    /\ \A i \in 1..Len(items) : items[1].score >= items[i].score
    /\ Cardinality(DOMAIN ipSeen) = Len(items)
    /\ \A i \in 1..Len(items) : items[i].ip \in DOMAIN ipSeen /\ ipSeen[items[i].ip] = i
    /\ Len(items) > 0 => Best(items).score = Snapshot(items)[1].score

\* A full collector of the largest capacity whose best entry is not at the
\* root and whose items are not in descending order.
C19_Witness ==
    /\ cfg.TopN = TopNMax /\ Len(items) = TopNMax
    /\ Best(items).score < items[1].score
    /\ items[2].score < items[3].score

(***************************************************************************)
(* Configurations (specification SpecCfg): New and the start of Run on a   *)
(* valid configuration with one field moved out of its range.              *)
(***************************************************************************)
\* The values at or below zero that are tried are -CfgLow..0.
CfgLow == 2

\* The values tried for the field f: at or below zero, above the range,
\* and for MaxBitsV4 below the /30 of the request.
CfgTried(f) ==
    LET low == {0 - k : k \in 0..CfgLow} IN
    CASE f = "SplitStepV4" -> low \cup {9}
      [] f = "SplitStepV6" -> low \cup {17}
      [] f = "MaxBitsV4" -> low \cup {24, 33}
      [] f = "MaxBitsV6" -> low \cup {129}
      [] f = "DiversityWeight" -> (low \ {0}) \cup {101}
      [] OTHER -> low

CfgFields ==
    {"Budget", "TopN", "Concurrency", "Heads", "Beam", "SplitStepV4", "SplitStepV6",
     "MinSamplesSplit", "MaxBitsV4", "MaxBitsV6", "SplitInterval", "DiversityWeight"}

InitCfg ==
    \E f \in CfgFields, req \in RunCIDRs :
        \E v \in CfgTried(f) \cup {RunConfigOf(1, 1)[f]} :
            InitWith([RunConfigOf(1, 1) EXCEPT ![f] = v], req, "quad", FreeDraws)

NextCfg == New \/ RunStart

SpecCfg == InitCfg /\ [][NextCfg]_vars

\* The ranges the configuration options are documented to have, MaxBits not
\* below the prefix length of a requested CIDR included.
InDocumentedRange(c, req) ==
    /\ c.Budget > 0 /\ c.TopN > 0 /\ c.Concurrency > 0 /\ c.Heads > 0 /\ c.Beam > 0
    /\ c.SplitStepV4 \in 1..8 /\ c.SplitStepV6 \in 1..16
    /\ c.MinSamplesSplit > 0
    /\ c.MaxBitsV4 \in 1..32 /\ c.MaxBitsV6 \in 1..128
    /\ c.SplitInterval > 0
    /\ c.DiversityWeight \in 0..100
    /\ \A i \in 1..Len(req) :
          req[i].bits <= (IF req[i].fam = 4 THEN c.MaxBitsV4 ELSE c.MaxBitsV6)

\* C5 (as claimed): for a configuration with a field outside its documented
\* range, New followed by Run returns a configuration error, with no worker
\* started and no task sent.
C5_OutOfRangeRejected ==
    (~InDocumentedRange(rawCfg, cidrs) /\ pc \notin {"new", "run"}) =>
        /\ pc = "returned"
        /\ retErr \notin {"nil", "noCIDR"}
        /\ workers = <<>> /\ tasks = <<>> /\ submitted = 0

(***************************************************************************)
(* The tree on its own (specification SpecTree): NewArmTree on any short   *)
(* list of prefixes inside 10.0.0.0/29, under any of the tree              *)
(* configurations, then any sequence of Update and SplitNode calls.        *)
(***************************************************************************)
TreeRootsMax == 2

TreeSamplesMax == 2

\* The prefixes roots are taken from: nested ones, disjoint ones, and one
\* with host bits set.
TreeRootPool ==
    {P4(Net10, 29), P4(Net10, 30), P4(Net10 + 4, 30), P4(Net10 + 5, 30), P4(Net10 + 2, 31)}

TreeRootLists == UNION {[1..n -> TreeRootPool] : n \in 1..TreeRootsMax}

\* The largest split_step_v4 of the tree configurations.
TreeStepMax == 2

\* The tree configurations: every split step up to TreeStepMax with
\* max_bits_v4 of 30 or 31.
TreeConfigs ==
    {[RunConfigOf(1, 1) EXCEPT !.SplitStepV4 = st, !.MaxBitsV4 = mb] :
        st \in 1..TreeStepMax, mb \in {30, 31}}

InitTree ==
    \E req \in TreeRootLists, c \in TreeConfigs :
        /\ rawCfg = c /\ cfg = c
        /\ cidrs = req /\ mock = "quad" /\ rng = FreeDraws /\ pc = "new"
        /\ schedErr = "nil" /\ retErr = "nil" /\ response = <<>> /\ ctxErr = "nil"
        /\ roots = NewArmTree(req).roots
        /\ nodes = NewArmTree(req).nodes
        /\ items = <<>> /\ ipSeen = <<>> /\ focus = <<>> /\ history = <<>>
        /\ rngPos = <<>> /\ seenIPs = {} /\ tasks = <<>> /\ done = <<>>
        /\ tasksClosed = FALSE /\ doneClosed = FALSE /\ workers = <<>>
        /\ submitted = 0 /\ completed = 0 /\ lastSplit = 0 /\ fillI = 0
        /\ seed = 0 /\ offered = <<>> /\ passes = <<>> /\ callers = <<>> /\ made = <<>>
        /\ updaters = <<>> /\ updated = <<>>
        /\ runNo = 1 /\ prevTop = <<>>

TreeRest ==
    <<seed, offered, updaters, passes, callers, made, rawCfg, cfg, cidrs, mock, pc, schedErr, retErr, response, ctxErr, items, ipSeen,
      focus, history, rng, rngPos, seenIPs, tasks, done, tasksClosed, doneClosed,
      workers, submitted, completed, lastSplit, fillI, runNo, prevTop>>

\* One call ArmTree.Update on an arm of the tree.
UpdateCall ==
    /\ TotalSamples(nodes) < TreeSamplesMax
    /\ \E p \in DOMAIN nodes, ok \in BOOLEAN :
          LET t == TreeUpdate(Tree, p, ok, 10, TimeoutMS) IN
          /\ roots' = t.roots
          /\ nodes' = t.nodes
          /\ updated' = Returned(updated, Masked(p), ok)
    /\ UNCHANGED TreeRest

\* One call ArmTree.SplitNode that splits an arm.
SplitNodeCall ==
    /\ \E p \in DOMAIN nodes :
          /\ SplitNodeOK(nodes, p, cfg)
          /\ nodes' = SplitNode(nodes, p, cfg)
    /\ UNCHANGED <<roots, updated>>
    /\ UNCHANGED TreeRest

NextTree == UpdateCall \/ SplitNodeCall

SpecTree == InitTree /\ [][NextTree]_vars

\* C9 (as claimed): the leaves of the tree are pairwise disjoint and cover
\* exactly the union of the roots, whatever the roots are.
C9_LeavesDisjointCover ==
    LET L == LeafNodes(nodes) IN
    /\ \A p, q \in L : p # q => AddrsOf(p) \cap AddrsOf(q) = {}
    /\ UNION {AddrsOf(p) : p \in L} = UNION {AddrsOf(roots[i]) : i \in 1..Len(roots)}

\* C12 (as claimed): no arm created by SplitNode has a prefix longer than
\* max_bits of its family, whatever the lengths of the roots and the split
\* step of the configuration.
C12_NoArmBeyondMaxBits ==
    \A p \in DOMAIN nodes :
        p \notin Range(roots) =>
            p.bits <= (IF p.fam = 4 THEN cfg.MaxBitsV4 ELSE cfg.MaxBitsV6)

(***************************************************************************)
(* Termination (specification SpecLive): the runs of Spec with the         *)
(* goroutines scheduled fairly.  The scheduler goroutine and every worker  *)
(* goroutine keep taking the steps they can take; nothing obliges the      *)
(* caller to cancel the context.                                           *)
(***************************************************************************)
\* The steps of the goroutine that runs Run and schedule.
SchedulerStep ==
    \/ New \/ RunStart \/ FillSubmit \/ LoopExit \/ LoopCancel \/ LoopRecv
    \/ LoopSubmit \/ CloseTasks \/ WaitWorkers \/ Drain \/ Return

\* The steps of the worker goroutine w.
WorkerStep(w) ==
    /\ w \in DOMAIN workers
    /\ WorkerProbe(w) \/ WorkerEnd(w) \/ WorkerSend(w) \/ WorkerCancelled(w)

Fairness ==
    /\ WF_vars(SchedulerStep)
    /\ \A w \in 1..RunConcurrency : WF_vars(WorkerStep(w))

\* A run of the full budget on 10.0.0.0/31, which splits into two /32.
InitLive ==
    InitWith([RunConfigOf(RunBudget, RunConcurrency) EXCEPT !.MaxBitsV4 = 32],
             <<P4(Net10, 31)>>, "quad", FreeDraws)

SpecLive == InitLive /\ [][Next]_vars /\ Fairness

\* C4: under fair scheduling Run eventually returns, whether or not the
\* context is cancelled on the way.
C4_RunReturns == <>(pc = "returned")

\* Run has returned after a cancellation that left submitted tasks without
\* a processed result.
C4_Witness ==
    /\ pc = "returned" /\ Started
    /\ ctxErr # "nil"
    /\ completed < submitted

(***************************************************************************)
(* Two runs on the same inputs (specification SpecRerun): one head whose   *)
(* generator yields a fixed sequence of draws, the deterministic mock, and *)
(* after a complete first run a second engine built from the same          *)
(* configuration, seed and CIDRs.  With at most RerunBudget probes no arm   *)
(* reaches 3 samples before the last selection, so every selection is the  *)
(* exact one of SelectNextPrefix.                                          *)
(***************************************************************************)
RerunBudget == 3

RerunSeeds == 3

RerunConfigs ==
    {[RunConfigOf(b, 1) EXCEPT !.Heads = 1, !.Seed = sd] :
        b \in 1..RerunBudget, sd \in 1..RerunSeeds}

\* The draws of head h's generator, which NewHeadManager seeds with
\* BaseSeed + h * 9973: a sequence fixed by the seed.
Tape(sd, h) == [i \in 1..TapeLen |-> ((sd + h * 9973) * i) % RngMod]

InitRerun ==
    \E c \in RerunConfigs :
        InitWith(c, <<P4(Net10, 31), P4(Net10 + 2, 31)>>, "quad",
                 [h \in 0..(c.Heads - 1) |-> Tape(c.Seed, h)])

\* After a complete, uncancelled run the caller keeps the response and runs
\* a new engine on the same configuration, seed and CIDRs.
Rerun ==
    /\ pc = "returned"
    /\ runNo = 1
    /\ ctxErr = "nil" /\ retErr = "nil"
    /\ prevTop' = response
    /\ runNo' = 2
    /\ pc' = "new"
    /\ schedErr' = "nil"
    /\ response' = <<>>
    /\ roots' = <<>> /\ nodes' = <<>>
    /\ items' = <<>> /\ ipSeen' = <<>>
    /\ focus' = <<>> /\ history' = <<>>
    /\ rngPos' = <<>>
    /\ seenIPs' = {}
    /\ tasks' = <<>> /\ done' = <<>>
    /\ tasksClosed' = FALSE /\ doneClosed' = FALSE
    /\ workers' = <<>>
    /\ submitted' = 0 /\ completed' = 0 /\ lastSplit' = 0 /\ fillI' = 0
    /\ seed' = 0 /\ offered' = <<>> /\ passes' = <<>>
    /\ updated' = <<>>
    /\ UNCHANGED <<updaters, callers, made, rawCfg, cfg, cidrs, mock, rng, ctxErr, retErr>>

NextRerun == Next \/ Rerun

SpecRerun == InitRerun /\ [][NextRerun]_vars

\* C10 (as claimed): two complete runs with the same configuration, seed,
\* CIDRs and deterministic probe return the same top-N list.
C10_SameTopN ==
    (runNo = 2 /\ pc = "returned" /\ ctxErr = "nil" /\ retErr = "nil") =>
        response = prevTop

(***************************************************************************)
(* Options inside their ranges (specification SpecOpts): New and the start *)
(* of Run on valid configurations of any small seed (0 included), any      *)
(* number of heads and a diversity weight of 0, 0.3 or 1.                  *)
(***************************************************************************)
OptSeedMax == 2

OptConfigs ==
    {[RunConfigOf(1, 1) EXCEPT !.Seed = sd, !.Heads = h, !.DiversityWeight = dw] :
        sd \in 0..OptSeedMax, h \in 1..RunHeads, dw \in {0, 30, 100}}

InitOpts == \E c \in OptConfigs, req \in RunCIDRs : InitWith(c, req, "quad", FreeDraws)

NextOpts == New \/ RunStart

SpecOpts == InitOpts /\ [][NextOpts]_vars

\* C11 (as claimed): when Config.Seed is 0 and Run has built the head
\* manager, head i's generator is seeded with seed + i * 9973, seed being the
\* time-derived value Run computed, and not with 0 + i * 9973.
C11_HeadsSeededFromClock ==
    (rawCfg.Seed = 0 /\ pc = "fill") =>
        \A i \in DOMAIN focus :
            /\ HeadSeed(ToHeadManagerConfig(cfg), i) = seed + i * 9973
            /\ HeadSeed(ToHeadManagerConfig(cfg), i) # 0 + i * 9973

\* C15 (as claimed): a configuration whose options all lie inside their
\* documented ranges is used by the run unchanged; in particular a diversity
\* weight of 0 reaches the head manager as 0 (no diversity penalty term) and
\* is not replaced by the default 0.3.
C15_InRangeUsedUnchanged ==
    (InDocumentedRange(rawCfg, cidrs) /\ pc # "new") =>
        /\ cfg = rawCfg
        /\ ToHeadManagerConfig(cfg).DiversityWeight = rawCfg.DiversityWeight

(***************************************************************************)
(* Concurrent updates of the arms (specification SpecArm): ArmUpdaters     *)
(* goroutines call ArmNode.Update on the arms of a tree of two roots, with *)
(* any outcome, ArmCallsMax calls in all.  A call is two steps: it takes   *)
(* the arm's mutex and reads the arm, then stores the updated arm and      *)
(* releases the mutex on return.                                           *)
(***************************************************************************)
ArmUpdaters == 2

ArmCallsMax == 3

ArmRoots == <<P4(Net10, 30), P4(Net10 + 4, 30)>>

\* A goroutine that is not inside Update.
\* The latencies and the timeouts passed to Update, in milliseconds.
ArmLatencies == {10, 20}
ArmTimeouts == {4, TimeoutMS}

IdleUpdater ==
    [st |-> "idle", p |-> ArmRoots[1], ok |-> FALSE, ms |-> 0, timeoutMS |-> 0,
     old |-> NewArmNode(ArmRoots[1], NoPrefix)]

InitArm ==
    /\ rawCfg = RunConfigOf(1, 1) /\ cfg = RunConfigOf(1, 1)
    /\ cidrs = ArmRoots /\ mock = "quad" /\ rng = FreeDraws /\ pc = "new"
    /\ schedErr = "nil" /\ retErr = "nil" /\ response = <<>> /\ ctxErr = "nil"
    /\ roots = NewArmTree(ArmRoots).roots
    /\ nodes = NewArmTree(ArmRoots).nodes
    /\ items = <<>> /\ ipSeen = <<>> /\ focus = <<>> /\ history = <<>>
    /\ rngPos = <<>> /\ seenIPs = {} /\ tasks = <<>> /\ done = <<>>
    /\ tasksClosed = FALSE /\ doneClosed = FALSE /\ workers = <<>>
    /\ submitted = 0 /\ completed = 0 /\ lastSplit = 0 /\ fillI = 0
    /\ seed = 0 /\ offered = <<>> /\ passes = <<>> /\ callers = <<>> /\ made = <<>>
    /\ updaters = [u \in 1..ArmUpdaters |-> IdleUpdater]
    /\ updated = <<>>
    /\ runNo = 1 /\ prevTop = <<>>

ArmRest ==
    <<seed, offered, passes, callers, made, rawCfg, cfg, cidrs, mock, pc, schedErr, retErr, response, ctxErr,
      roots, items, ipSeen, focus, history, rng, rngPos, seenIPs, tasks, done,
      tasksClosed, doneClosed, workers, submitted, completed, lastSplit, fillI, runNo,
      prevTop>>

\* The Update calls that have returned on the arm of prefix p.
UpdatedOf(p) == IF p \in DOMAIN updated THEN updated[p] ELSE [ok |-> 0, fail |-> 0]

\* The number of Update calls made so far, returned or not.
ArmCalls ==
    SetSum([p \in DOMAIN nodes |-> UpdatedOf(p).ok + UpdatedOf(p).fail], DOMAIN nodes)
        + Cardinality({u \in DOMAIN updaters : updaters[u].st = "locked"})

\* A faulty Update: it does not wait for the arm's mutex.
UpdateLockUnguarded(u) ==
    /\ updaters[u].st = "idle"
    /\ ArmCalls < ArmCallsMax
    /\ \E p \in DOMAIN nodes, ok \in BOOLEAN, ms \in ArmLatencies, t \in ArmTimeouts :
          updaters' = [updaters EXCEPT
                          ![u] = [st |-> "locked", p |-> p, ok |-> ok, ms |-> ms,
                                  timeoutMS |-> t, old |-> nodes[p]]]
    /\ UNCHANGED <<nodes, updated>>
    /\ UNCHANGED ArmRest

\* Goroutine u calls Update on an arm: a.mu.Lock() succeeds when no other
\* goroutine holds the arm's mutex, and the fields of the arm are read.
UpdateLock(u) ==
    /\ updaters[u].st = "idle"
    /\ ArmCalls < ArmCallsMax
    /\ \E p \in DOMAIN nodes, ok \in BOOLEAN, ms \in ArmLatencies, t \in ArmTimeouts :
          /\ \A v \in DOMAIN updaters : ~(updaters[v].st = "locked" /\ updaters[v].p = p)
          /\ updaters' = [updaters EXCEPT
                             ![u] = [st |-> "locked", p |-> p, ok |-> ok, ms |-> ms,
                                     timeoutMS |-> t, old |-> nodes[p]]]
    /\ UNCHANGED <<nodes, updated>>
    /\ UNCHANGED ArmRest

\* Goroutine u stores the updated fields and returns, releasing the mutex.
UpdateStore(u) ==
    /\ updaters[u].st = "locked"
    /\ nodes' = [nodes EXCEPT ![updaters[u].p] =
                    ArmUpdate(updaters[u].old, updaters[u].ok, updaters[u].ms,
                              updaters[u].timeoutMS)]
    /\ updated' = Returned(updated, updaters[u].p, updaters[u].ok)
    /\ updaters' = [updaters EXCEPT ![u] = IdleUpdater]
    /\ UNCHANGED ArmRest

NextArm == \E u \in 1..ArmUpdaters : UpdateLock(u) \/ UpdateStore(u)

SpecArm == InitArm /\ [][NextArm]_vars

\* C14: after any sequence of Update calls, concurrent ones included, every
\* arm has samples = successes + failures, alpha = 1 + successes >= 1,
\* beta = 1 + failures >= 1 and Lambda = 0.001 + successes + 0.5 * failures
\* > 0, and no call that returned is lost: successes and failures are the
\* numbers of calls that returned with each outcome.
C14_ArmCountsConsistent ==
    \A p \in DOMAIN nodes :
        LET a == nodes[p] IN
        /\ a.samples = a.successes + a.failures
        /\ a.alpha = 1 + a.successes /\ a.alpha >= 1
        /\ a.beta = 1 + a.failures /\ a.beta >= 1
        /\ a.lambdaMilli = 1 + 1000 * a.successes + 500 * a.failures /\ a.lambdaMilli > 0
        /\ a.successes = UpdatedOf(p).ok
        /\ a.failures = UpdatedOf(p).fail

\* An arm has been updated with a success and with a failure while another
\* goroutine is inside Update.
C14_Witness ==
    /\ \E p \in DOMAIN nodes : nodes[p].successes >= 1 /\ nodes[p].failures >= 1
    /\ \E u \in DOMAIN updaters : updaters[u].st = "locked"

(***************************************************************************)
(* The split scenario (specification SpecSplit): one root 1.1.0.0/16,      *)
(* split_step_v4 = 2, min_samples_split = 5, split_interval = 5, the other *)
(* options at their defaults, and the mock "near18".  The scenario's       *)
(* budget of 40 with the default concurrency of 200 is scaled to a budget  *)
(* of ScenBudget with a concurrency of ScenConcurrency, which keeps the    *)
(* budget below twice the concurrency.                                     *)
(***************************************************************************)
ScenBudget == 6

ScenConcurrency == 3

ScenConfig ==
    [DefaultConfig EXCEPT !.Budget = ScenBudget, !.Concurrency = ScenConcurrency,
                          !.SplitStepV4 = 2, !.MinSamplesSplit = 5, !.SplitInterval = 5]

ScenRoot == [fam |-> 4, addr |-> Net1x1, bits |-> 16]

InitSplit ==
    InitWith(ScenConfig, <<ScenRoot>>, "near18",
             [h \in 0..(ScenConfig.Heads - 1) |-> Tape(ScenConfig.Seed, h)])

\* The steps of a run that is not cancelled.
NextSplit ==
    \/ New
    \/ RunStart
    \/ FillSubmit
    \/ LoopRecv
    \/ LoopExit
    \/ CloseTasks
    \/ WaitWorkers
    \/ Return
    \/ \E w \in DOMAIN workers : WorkerProbe(w)
    \/ \E w \in DOMAIN workers : WorkerSend(w)
    \/ \E w \in DOMAIN workers : WorkerEnd(w)

SpecSplit == InitSplit /\ [][NextSplit]_vars

\* C16 (as claimed): when the run of the split scenario has returned
\* without a cancellation, some arm with prefix 1.1.0.0/18 or a descendant
\* of it has samples > 0.
C16_FastChildSampled ==
    (pc = "returned" /\ ctxErr = "nil" /\ retErr = "nil") =>
        \E p \in DOMAIN nodes :
            /\ p.bits >= 18
            /\ Contains([fam |-> 4, addr |-> Net1x1, bits |-> 18], Addr(p))
            /\ nodes[p].samples > 0

(***************************************************************************)
(* Frame of ArmNode.Update                                                 *)
(***************************************************************************)
\* a / b <= c / d for naturals a, c and positive b, d, compared by quotients
\* and remainders so that no product is formed.
RECURSIVE FracLE(_, _, _, _)
FracLE(a, b, c, d) ==
    IF a \div b # c \div d THEN a \div b < c \div d
    ELSE IF a % b = 0 THEN TRUE
    ELSE IF c % d = 0 THEN FALSE
    ELSE FracLE(d, c % d, b, a % b)

\* Mu of the arm b lies between Mu of the arm a and the value v, and differs
\* from Mu of a unless that was v already.
MuMovedToward(a, b, v) ==
    /\ IF FracLE(a.muLambda, a.lambdaMilli, v, 1)
       THEN /\ FracLE(a.muLambda, a.lambdaMilli, b.muLambda, b.lambdaMilli)
            /\ FracLE(b.muLambda, b.lambdaMilli, v, 1)
       ELSE /\ FracLE(b.muLambda, b.lambdaMilli, a.muLambda, a.lambdaMilli)
            /\ FracLE(v, 1, b.muLambda, b.lambdaMilli)
    /\ \/ FracLE(a.muLambda, a.lambdaMilli, v, 1) /\ FracLE(v, 1, a.muLambda, a.lambdaMilli)
       \/ ~FracLE(a.muLambda, a.lambdaMilli, b.muLambda, b.lambdaMilli)
       \/ ~FracLE(b.muLambda, b.lambdaMilli, a.muLambda, a.lambdaMilli)

\* The step in which the goroutine u returns from Update.
UpdateReturns(u) == updaters[u].st = "locked" /\ updaters'[u].st = "idle"

\* C29: an Update with success = false adds 1 to samples, failures and
\* Beta and 0.5 to Lambda, moves Mu toward twice the timeout, and leaves
\* successes, Alpha, SumLatency, SumSqDiff, AlphaNG, BetaNG, IsSplit, the
\* parent and the children as they were; an Update with success = true
\* leaves failures and Beta as they were.
C29_UpdateFrame ==
    [][\A u \in DOMAIN updaters :
          UpdateReturns(u) =>
              LET a == nodes[updaters[u].p]
                  b == nodes'[updaters[u].p]
              IN IF updaters[u].ok
                 THEN b.failures = a.failures /\ b.beta = a.beta
                 ELSE /\ b.samples = a.samples + 1
                      /\ b.failures = a.failures + 1
                      /\ b.beta = a.beta + 1
                      /\ b.lambdaMilli = a.lambdaMilli + 500
                      /\ MuMovedToward(a, b, 2 * updaters[u].timeoutMS)
                      /\ b.successes = a.successes /\ b.alpha = a.alpha
                      /\ b.sumLatency = a.sumLatency /\ b.sumSqDiff = a.sumSqDiff
                      /\ b.alphaNG2 = a.alphaNG2 /\ b.betaNG = a.betaNG
                      /\ b.isSplit = a.isSplit /\ b.parent = a.parent
                      /\ b.children = a.children /\ b.prefix = a.prefix]_vars

\* An arm has had a success of 20 ms, then a failure with the timeout of 4 ms
\* (Mu moved down toward 8), and a failure with the timeout of 3000 ms (Mu
\* moved up toward 6000).
C29_Witness ==
    \E p \in DOMAIN nodes :
        /\ nodes[p].successes = 1 /\ nodes[p].failures = 2
        /\ nodes[p].sumLatency = 20
        /\ nodes[p].muLambda = 1000 * 20 + 500 * 8 + 500 * (2 * TimeoutMS)

(***************************************************************************)
(* The Normal-Gamma parameters of an arm                                   *)
(***************************************************************************)
\* The number a * b / l^2 of a term is not negative.
TermNonNegative(t) == (t.a >= 0 /\ t.b >= 0) \/ (t.a <= 0 /\ t.b <= 0)

\* C30: the first successful Update of an arm changes Mu and Lambda but
\* not SumSqDiff, AlphaNG or BetaNG, whatever failures came before; every
\* later success adds 0.5 to AlphaNG and a non-negative amount to BetaNG; so
\* AlphaNG = 1 + 0.5 * max(0, successes - 1) and BetaNG >= 1 in every state.
C30_NormalGamma ==
    /\ [](\A p \in DOMAIN nodes :
             /\ nodes[p].alphaNG2 =
                    2 + (IF nodes[p].successes > 1 THEN nodes[p].successes - 1 ELSE 0)
             /\ \A i \in DOMAIN nodes[p].betaNG : TermNonNegative(nodes[p].betaNG[i]))
    /\ [][\A u \in DOMAIN updaters :
             (UpdateReturns(u) /\ updaters[u].ok) =>
                 LET a == nodes[updaters[u].p]
                     b == nodes'[updaters[u].p]
                 IN IF a.successes = 0
                    THEN /\ b.lambdaMilli # a.lambdaMilli
                         /\ ~(/\ FracLE(a.muLambda, a.lambdaMilli, b.muLambda, b.lambdaMilli)
                              /\ FracLE(b.muLambda, b.lambdaMilli, a.muLambda, a.lambdaMilli))
                         /\ b.sumSqDiff = a.sumSqDiff
                         /\ b.alphaNG2 = a.alphaNG2 /\ b.betaNG = a.betaNG
                    ELSE /\ b.alphaNG2 = a.alphaNG2 + 1
                         /\ Len(b.betaNG) = Len(a.betaNG) + 1
                         /\ SubSeq(b.betaNG, 1, Len(a.betaNG)) = a.betaNG
                         /\ TermNonNegative(b.betaNG[Len(b.betaNG)])]_vars

\* An arm has had a failure and then two successes of different latencies.
C30_Witness ==
    \E p \in DOMAIN nodes :
        /\ nodes[p].failures = 1 /\ nodes[p].successes = 2
        /\ Len(nodes[p].betaNG) = 1 /\ nodes[p].betaNG[1].a > 0
        /\ nodes[p].alphaNG2 = 3

(***************************************************************************)
(* The schedule of the split passes                                        *)
(***************************************************************************)
\* The samples of the arm of prefix p in the tree, 0 when it has no arm yet.
SamplesOf(p) == IF Masked(p) \in DOMAIN nodes THEN nodes[Masked(p)].samples ELSE 0

PassHeads == 1

\* The most samples the arms of the tree receive together.
PassSamplesMax == 5

PassRootLists ==
    {<<P4(Net10, 30), P4(Net10 + 4, 30), P4(Net10 + 8, 30), P4(Net10 + 12, 30),
       P4(Net10 + 16, 30), P4(Net10 + 20, 31)>>,
     <<P4(Net10 + 20, 31)>>}

\* The configurations: split step 1 up to /31, and split step 2 up to /32.
PassConfigs ==
    {[RunConfigOf(1, 1) EXCEPT !.Heads = PassHeads, !.SplitStepV4 = 1, !.MaxBitsV4 = 31],
     [RunConfigOf(1, 1) EXCEPT !.Heads = PassHeads, !.SplitStepV4 = 2, !.MaxBitsV4 = 32]}

InitPass ==
    \E req \in PassRootLists, c \in PassConfigs :
        /\ rawCfg = c /\ cfg = c
        /\ cidrs = req /\ mock = "quad" /\ rng = FreeDraws /\ pc = "new"
        /\ schedErr = "nil" /\ retErr = "nil" /\ response = <<>> /\ ctxErr = "nil"
        /\ roots = NewArmTree(req).roots
        /\ nodes = NewArmTree(req).nodes
        /\ items = <<>> /\ ipSeen = <<>>
        /\ focus = NewHeadManager(c).focus /\ history = NewHeadManager(c).history
        /\ rngPos = <<>> /\ seenIPs = {} /\ tasks = <<>> /\ done = <<>>
        /\ tasksClosed = FALSE /\ doneClosed = FALSE /\ workers = <<>>
        /\ submitted = 0 /\ completed = 0 /\ lastSplit = 0 /\ fillI = 0
        /\ seed = 0 /\ offered = <<>> /\ passes = <<>> /\ callers = <<>> /\ made = <<>>
        /\ updaters = <<>> /\ updated = <<>>
        /\ runNo = 1 /\ prevTop = <<>>

PassRest ==
    <<seed, offered, updaters, callers, made, rawCfg, cfg, cidrs, mock, pc, schedErr,
      retErr, response, ctxErr, items, ipSeen, rng, rngPos, seenIPs, tasks, done,
      tasksClosed, doneClosed, workers, submitted, completed, lastSplit, fillI, runNo,
      prevTop>>

\* One call ArmTree.Update, of a successful probe, on a leaf of the tree that
\* has not yet the samples to be split (CanSplit reads only the sample count
\* and every order of the candidates is allowed).
PassUpdate ==
    /\ TotalSamples(nodes) < PassSamplesMax
    /\ \E p \in LeafNodes(nodes), ok \in {TRUE} :
          /\ nodes[p].samples < cfg.MinSamplesSplit
          /\ \E t \in {TreeUpdate(Tree, p, ok, 10, TimeoutMS)} :
                /\ roots' = t.roots
                /\ nodes' = t.nodes
          /\ updated' = Returned(updated, Masked(p), ok)
    /\ UNCHANGED <<focus, history, passes>>
    /\ UNCHANGED PassRest

\* The leaves of the tree that satisfy CanSplit.
Splittable(nd, c) ==
    {p \in LeafNodes(nd) : CanSplit(nd[p], c.MinSamplesSplit, c.MaxBitsV4, c.MaxBitsV6)}

\* The arms that are split in the tree nd1 and were not in the tree nd.
SplitBetween(nd, nd1) ==
    {p \in DOMAIN nd1 : nd1[p].isSplit /\ ~(p \in DOMAIN nd /\ nd[p].isSplit)}

\* One call Engine.trySplit.  The history keeps, of the last pass, the leaves
\* that satisfied CanSplit when it started and the arms it split.
TrySplitCall ==
    /\ \E o \in trySplit(nodes, Heads, cfg) :
          /\ nodes' = o.nodes
          /\ focus' = o.heads.focus
          /\ history' = o.heads.history
          /\ passes' = <<[splittable |-> Splittable(nodes, cfg),
                          split |-> SplitBetween(nodes, o.nodes)]>>
    /\ UNCHANGED <<roots, updated>>
    /\ UNCHANGED PassRest

NextPass == PassUpdate \/ TrySplitCall

SpecPass == InitPass /\ [][NextPass]_vars

\* C22: one trySplit pass asks for at most 4 * Heads split candidates and
\* marks at most 2 * Heads arms as split; every arm it splits was at that
\* moment a leaf with samples >= min_samples_split and a prefix shorter than
\* max_bits of its family.
C22_PassLimits ==
    /\ [](\A cand \in GetSplitCandidates(nodes, cfg, cfg.Heads * 4) :
             Len(cand) <= 4 * cfg.Heads)
    /\ [](\A k \in DOMAIN passes : Cardinality(passes[k].split) <= 2 * cfg.Heads)
    /\ [][passes' # passes =>
             \A p \in passes'[1].split :
                 /\ p \in DOMAIN nodes
                 /\ ~nodes[p].isSplit
                 /\ nodes[p].samples >= cfg.MinSamplesSplit
                 /\ p.bits < (IF p.fam = 4 THEN cfg.MaxBitsV4 ELSE cfg.MaxBitsV6)
                 /\ nodes'[p].isSplit]_vars

\* A pass found more than 4 * Heads leaves that could be split and split
\* 2 * Heads of them.
C22_Witness ==
    /\ passes # <<>>
    /\ Cardinality(passes[1].splittable) > 4 * cfg.Heads
    /\ Cardinality(passes[1].split) = 2 * cfg.Heads

\* C23: a split pass that runs while some leaf satisfies CanSplit splits at
\* least one arm; a single root shorter than max_bits, with
\* min_samples_split samples, is split by the first pass.
C23_PassSplitsSomething ==
    \A k \in DOMAIN passes : passes[k].splittable # {} => passes[k].split # {}

(***************************************************************************)
(* The tree under Update, SplitNode and GetOrCreateNode calls with         *)
(* prefixes that have no arm yet.                                          *)
(***************************************************************************)
\* The most arms of a tree on which GetOrCreateNode is still called.
GrowArmsMax == 4

\* The prefixes GetOrCreateNode is called with.
GrowPool ==
    {P4(Net10, 31), P4(Net10 + 2, 31), P4(Net10 + 1, 32), P4(Net10 + 4, 30),
     P4(Net10 + 8, 30)}

\* One call ArmTree.GetOrCreateNode.
GetOrCreateNodeCall ==
    /\ Cardinality(DOMAIN nodes) < GrowArmsMax
    /\ \E p \in GrowPool :
          \E t \in {GetOrCreateNode(Tree, p)} :
              /\ roots' = t.roots
              /\ nodes' = t.nodes
    /\ UNCHANGED updated
    /\ UNCHANGED TreeRest

NextGrow == UpdateCall \/ SplitNodeCall \/ GetOrCreateNodeCall

SpecGrow == InitTree /\ [][NextGrow]_vars

\* C25: the prefixes in the children list of a split arm are pairwise
\* disjoint and their union is the prefix of the arm, also when a child
\* prefix had an arm already (for example as another root) at the split.
C25_ChildrenPartition ==
    \A p \in DOMAIN nodes :
        nodes[p].isSplit =>
            LET ch == nodes[p].children IN
            /\ \A i, j \in DOMAIN ch : i # j => AddrsOf(ch[i]) \cap AddrsOf(ch[j]) = {}
            /\ UNION {AddrsOf(ch[i]) : i \in DOMAIN ch} = AddrsOf(p)

\* C26: the children list of an arm is non-empty only if the arm is split.
C26_ChildrenOnlyIfSplit ==
    \A p \in DOMAIN nodes : nodes[p].children # <<>> => nodes[p].isSplit

\* The arms of the node map nd whose prefix strictly contains the prefix p.
Containers(nd, p) == {q \in DOMAIN nd : q.bits < p.bits /\ Contains(q, Addr(p))}

\* C27: when GetOrCreateNode creates an arm for a prefix strictly contained
\* in the prefix of some arm, the parent of the new arm is the arm of the
\* longest prefix among all the arms that strictly contain it, and the new
\* arm is appended to the children of that parent.
C27_ParentIsTightest ==
    [][\A p \in DOMAIN nodes' \ DOMAIN nodes :
          (/\ \A q \in DOMAIN nodes : nodes'[q].isSplit = nodes[q].isSplit
           /\ Containers(nodes, p) # {})
              => \E q \in Containers(nodes, p) :
                    /\ \A r \in Containers(nodes, p) : r.bits <= q.bits
                    /\ nodes'[p].parent = q
                    /\ nodes'[q].children = Append(nodes[q].children, p)]_vars

(***************************************************************************)
(* Concurrent callers of ArmTree.GetOrCreateNode and ArmTree.SplitNode.    *)
(* A call is a first step outside the write lock of the tree (the lookup   *)
(* under RLock of GetOrCreateNode; CanSplit and cidr.SplitPrefix of        *)
(* SplitNode) and a second step that holds t.mu from Lock to Unlock.       *)
(***************************************************************************)
ConcCallers == 2

ConcRootLists == {<<P4(Net10, 30)>>, <<P4(Net10, 31)>>, <<P4(Net10, 30), P4(Net10, 31)>>}

\* The prefixes GetOrCreateNode is called with.
ConcPool == {P4(Net10, 31), P4(Net10 + 1, 32)}

\* The prefixes of the arms SplitNode is called on.
ConcSplitPool == {P4(Net10, 30), P4(Net10, 31)}

\* What a call returned: nil or a list of arms; gen tells which of the arms
\* ever created for the prefix GetOrCreateNode returned.
NoRet == [nil |-> TRUE, arms |-> <<>>, gen |-> 0]

IdleCaller == [op |-> "none", st |-> "idle", p |-> NoPrefix, ret |-> NoRet]

InitConc ==
    \E req \in ConcRootLists, c \in PassConfigs :
        /\ rawCfg = c /\ cfg = c
        /\ cidrs = req /\ mock = "quad" /\ rng = FreeDraws /\ pc = "new"
        /\ schedErr = "nil" /\ retErr = "nil" /\ response = <<>> /\ ctxErr = "nil"
        /\ roots = NewArmTree(req).roots
        /\ nodes = NewArmTree(req).nodes
        /\ items = <<>> /\ ipSeen = <<>>
        /\ focus = NewHeadManager(c).focus /\ history = NewHeadManager(c).history
        /\ rngPos = <<>> /\ seenIPs = {} /\ tasks = <<>> /\ done = <<>>
        /\ tasksClosed = FALSE /\ doneClosed = FALSE /\ workers = <<>>
        /\ submitted = 0 /\ completed = 0 /\ lastSplit = 0 /\ fillI = 0
        /\ seed = 0 /\ offered = <<>> /\ passes = <<>>
        /\ callers = [k \in 1..ConcCallers |-> IdleCaller]
        /\ made = [p \in DOMAIN NewArmTree(req).nodes |-> 1]
        /\ updaters = <<>> /\ updated = <<>>
        /\ runNo = 1 /\ prevTop = <<>>

ConcRest ==
    <<seed, offered, updaters, updated, passes, rawCfg, cfg, cidrs, mock, pc, schedErr,
      retErr, response, ctxErr, items, ipSeen, focus, history, rng, rngPos, seenIPs,
      tasks, done, tasksClosed, doneClosed, workers, submitted, completed, lastSplit,
      fillI, runNo, prevTop>>

\* The history of the arms after the node map nd became nd1: one more arm
\* for every prefix of the set created.
Made(m, created) ==
    [p \in DOMAIN m \cup created |->
        (IF p \in DOMAIN m THEN m[p] ELSE 0) + (IF p \in created THEN 1 ELSE 0)]

\* The goroutine k can start a call.
CanCall(k) == callers[k].st \in {"idle", "done"}

\* GetOrCreateNode, first step: the lookup under RLock.
GocCheck(k) ==
    /\ CanCall(k)
    /\ \E p0 \in ConcPool :
          \E p \in {Masked(p0)} :
              callers' = [callers EXCEPT ![k] =
                  IF p \in DOMAIN nodes
                  THEN [op |-> "goc", st |-> "done", p |-> p,
                        ret |-> [nil |-> FALSE, arms |-> <<p>>, gen |-> made[p]]]
                  ELSE [op |-> "goc", st |-> "lock", p |-> p, ret |-> NoRet]]
    /\ UNCHANGED <<roots, nodes, made>>
    /\ UNCHANGED ConcRest

\* GetOrCreateNode, second step: Lock, the second lookup, the creation of
\* the arm, Unlock.  An arm was stored exactly when the tree changed.
GocLocked(k) ==
    /\ callers[k].st = "lock" /\ callers[k].op = "goc"
    /\ \E t \in {GetOrCreateNode(Tree, callers[k].p)} :
          /\ roots' = t.roots
          /\ nodes' = t.nodes
          /\ \E m \in {IF t # Tree THEN Made(made, {callers[k].p}) ELSE made} :
                /\ made' = m
                /\ callers' = [callers EXCEPT ![k].st = "done",
                                  ![k].ret = [nil |-> FALSE, arms |-> <<callers[k].p>>,
                                              gen |-> m[callers[k].p]]]
    /\ UNCHANGED ConcRest

\* SplitNode, first step: CanSplit and cidr.SplitPrefix; nil is returned when
\* either fails.
SplitCheck(k) ==
    /\ CanCall(k)
    /\ \E p \in DOMAIN nodes \cap ConcSplitPool :
          callers' = [callers EXCEPT ![k] =
              [op |-> "split", st |-> IF SplitNodeOK(nodes, p, cfg) THEN "lock" ELSE "done",
               p |-> p, ret |-> NoRet]]
    /\ UNCHANGED <<roots, nodes, made>>
    /\ UNCHANGED ConcRest

\* The child prefixes of the arm p that have no arm in the node map nd.
NewChildren(nd, p, c) ==
    SelectSeq(SplitPrefix(p, IF p.fam = 4 THEN c.SplitStepV4 ELSE c.SplitStepV6),
              LAMBDA q : Masked(q) \notin DOMAIN nd)

\* A faulty SplitNode: IsSplit is not read again under the write lock.
SplitLockedUnchecked(k) ==
    /\ callers[k].st = "lock" /\ callers[k].op = "split"
    /\ \E p \in {callers[k].p} :
          /\ nodes' = [AddChildren(nodes, p, NewChildren(nodes, p, cfg))
                          EXCEPT ![p].isSplit = TRUE]
          /\ made' = Made(made, {NewChildren(nodes, p, cfg)[i] :
                                    i \in DOMAIN NewChildren(nodes, p, cfg)})
          /\ callers' = [callers EXCEPT ![k].st = "done",
                            ![k].ret = [nil |-> FALSE,
                                        arms |-> NewChildren(nodes, p, cfg), gen |-> 0]]
    /\ UNCHANGED roots
    /\ UNCHANGED ConcRest

\* SplitNode, second step: Lock, nil if the arm is split by now, else the
\* creation of the children that have no arm yet, MarkSplit, Unlock.
SplitLocked(k) ==
    /\ callers[k].st = "lock" /\ callers[k].op = "split"
    /\ \E p \in {callers[k].p} :
          IF nodes[p].isSplit
          THEN /\ callers' = [callers EXCEPT ![k].st = "done", ![k].ret = NoRet]
               /\ UNCHANGED <<nodes, made>>
          ELSE /\ nodes' = [AddChildren(nodes, p, NewChildren(nodes, p, cfg))
                               EXCEPT ![p].isSplit = TRUE]
               /\ made' = Made(made, {NewChildren(nodes, p, cfg)[i] :
                                         i \in DOMAIN NewChildren(nodes, p, cfg)})
               /\ callers' = [callers EXCEPT ![k].st = "done",
                                 ![k].ret = [nil |-> FALSE,
                                             arms |-> NewChildren(nodes, p, cfg),
                                             gen |-> 0]]
    /\ UNCHANGED roots
    /\ UNCHANGED ConcRest

NextConc ==
    \/ PassUpdate
    \/ \E k \in 1..ConcCallers : GocCheck(k)
    \/ \E k \in 1..ConcCallers : GocLocked(k)
    \/ \E k \in 1..ConcCallers : SplitCheck(k)
    \/ \E k \in 1..ConcCallers : SplitLocked(k)

SpecConc == InitConc /\ [][NextConc]_vars

\* The arms of a list, as a set.
ArmsOf(s) == {Masked(s[i]) : i \in DOMAIN s}

\* The steps of the SplitNode calls, with Splittable1(p) telling whether the
\* call on the arm p goes on to split it: the first step changes nothing in
\* the tree and returns nil unless the arm is splittable; the second step
\* returns nil and changes nothing if the arm is split by then, and else
\* creates a fresh child arm for each of the 2^step child prefixes that has
\* no arm, appends them to the children, sets IsSplit and returns them.
SplitNodeSteps(Splittable1(_)) ==
    \A k \in DOMAIN callers :
        /\ (CanCall(k) /\ callers'[k] # callers[k] /\ callers'[k].op = "split") =>
               /\ nodes' = nodes /\ roots' = roots
               /\ IF Splittable1(callers'[k].p)
                  THEN callers'[k].st = "lock"
                  ELSE callers'[k].st = "done" /\ callers'[k].ret.nil
        /\ (callers[k].op = "split" /\ callers[k].st = "lock" /\ callers'[k].st = "done") =>
               LET p == callers[k].p
                   step == IF p.fam = 4 THEN cfg.SplitStepV4 ELSE cfg.SplitStepV6
                   fresh == SelectSeq(SplitPrefix(p, step), LAMBDA q : q \notin DOMAIN nodes)
               IN IF nodes[p].isSplit
                  THEN callers'[k].ret.nil /\ nodes' = nodes /\ roots' = roots
                  ELSE /\ Len(SplitPrefix(p, step)) = 2 ^ step
                       /\ ~callers'[k].ret.nil
                       /\ callers'[k].ret.arms = fresh
                       /\ DOMAIN nodes' = DOMAIN nodes \cup ArmsOf(fresh)
                       /\ \A q \in ArmsOf(fresh) :
                             /\ nodes'[q].parent = p /\ nodes'[q].samples = 0
                             /\ nodes'[q] = NewArmNode(q, p)
                       /\ nodes'[p] = [nodes[p] EXCEPT !.isSplit = TRUE,
                                                       !.children = @ \o fresh]
                       /\ \A q \in DOMAIN nodes \ {p} : nodes'[q] = nodes[q]
                       /\ roots' = roots

C28_OneArmPerPrefix ==
    /\ [](/\ DOMAIN made = DOMAIN nodes
          /\ \A p \in DOMAIN made : made[p] = 1)
    /\ [](\A k \in DOMAIN callers :
             (callers[k].op = "goc" /\ callers[k].st = "done") =>
                 /\ callers[k].p \in DOMAIN nodes
                 /\ callers[k].ret.arms = <<callers[k].p>>
                 /\ callers[k].ret.gen = 1)
    /\ [][/\ DOMAIN nodes \subseteq DOMAIN nodes'
          /\ Cardinality(DOMAIN nodes') >= Cardinality(DOMAIN nodes)]_vars

\* A GetOrCreateNode call found no arm for its prefix, and by the time it
\* holds the write lock a SplitNode call has created the arm.
C28_Witness ==
    \E k, j \in DOMAIN callers :
        /\ callers[k].op = "goc" /\ callers[k].st = "lock"
        /\ callers[k].p \in DOMAIN nodes
        /\ callers[j].op = "split" /\ callers[j].st = "done"
        /\ \E i \in DOMAIN callers[j].ret.arms : callers[j].ret.arms[i] = callers[k].p

\* ---------------------------------------------------------------------
\* sampleIPWithDedup on a tape: one head draws addresses for one prefix,
\* call after call, against the growing set of seen addresses.

DedupCallsMax == 6

DedupPrefixes ==
    {[fam |-> 4, addr |-> Net10, bits |-> 30], [fam |-> 4, addr |-> Net10 + 2, bits |-> 31],
     [fam |-> 4, addr |-> Net10 + 1, bits |-> 32]}

InitDedup ==
    \E p \in DedupPrefixes, tape \in [1..TapeLen -> 0..(RngMod - 1)] :
        /\ rawCfg = [RunConfigOf(DedupCallsMax, 1) EXCEPT !.Heads = 1]
        /\ cfg = rawCfg
        /\ cidrs = <<p>> /\ mock = "quad" /\ rng = [h \in {0} |-> tape] /\ pc = "new"
        /\ schedErr = "nil" /\ retErr = "nil" /\ response = <<>> /\ ctxErr = "nil"
        /\ roots = NewArmTree(<<p>>).roots
        /\ nodes = NewArmTree(<<p>>).nodes
        /\ items = <<>> /\ ipSeen = <<>>
        /\ focus = NewHeadManager(cfg).focus /\ history = NewHeadManager(cfg).history
        /\ rngPos = [h \in {0} |-> 0] /\ seenIPs = {} /\ tasks = <<>> /\ done = <<>>
        /\ tasksClosed = FALSE /\ doneClosed = FALSE /\ workers = <<>>
        /\ submitted = 0 /\ completed = 0 /\ lastSplit = 0 /\ fillI = 0
        /\ seed = 0 /\ offered = <<>> /\ passes = <<>> /\ callers = <<>> /\ made = <<>>
        /\ updaters = <<>> /\ updated = <<>>
        /\ runNo = 1 /\ prevTop = <<>>

DedupRest ==
    <<seed, offered, updaters, updated, passes, callers, made, rawCfg, cfg, cidrs, mock, pc,
      schedErr, retErr, response, ctxErr, roots, nodes, items, ipSeen, focus, history, rng,
      done, tasksClosed, doneClosed, workers, completed, lastSplit, fillI, runNo, prevTop>>

\* The tail of submitOneTask for a chosen prefix: sampleIPWithDedup, then the
\* send of the task.
DedupCall ==
    /\ submitted < cfg.Budget
    /\ \E s \in sampleIPWithDedup(cidrs[1], rng, 0, rngPos[0], seenIPs) :
        /\ rngPos' = [rngPos EXCEPT ![0] = s.pos]
        /\ seenIPs' = s.seen
        /\ tasks' = Append(tasks, [headID |-> 0, prefix |-> cidrs[1], ip |-> s.ip])
        /\ submitted' = submitted + 1
    /\ UNCHANGED DedupRest

NextDedup == DedupCall

SpecDedup == InitDedup /\ [][NextDedup]_vars

\* The address of draw number i (from 0) of a call that starts now.
DedupDraw(i) == sampleAddrFromPrefix(cidrs[1], rng, 0, (rngPos[0] + i) % TapeLen).ip

\* The number of draws a call that starts now makes according to the rule
\* "stop at the first unseen address, or after 32 draws".
DedupDraws ==
    LET fresh == {i \in 0..31 : DedupDraw(i) \notin seenIPs}
    IN IF fresh = {} THEN 32 ELSE (CHOOSE i \in fresh : \A j \in fresh : i <= j) + 1

\* C31: for a prefix with at least one host bit, the address returned by
\* sampleIPWithDedup was not in the dedup set before the call and is in it
\* afterwards, or it is the 32nd of 32 consecutive draws that were all in the
\* set; the call makes at most 32 draws (the first unseen draw ends it) and
\* it always returns an address of the prefix, even when every address of
\* the prefix has been probed.
C31_DedupDraws ==
    /\ [][submitted' = submitted + 1 /\ HostBits(cidrs[1]) > 0 =>
            LET ip == tasks'[Len(tasks')].ip IN
            /\ ip = DedupDraw(DedupDraws - 1)
            /\ rngPos'[0] = (rngPos[0] + DedupDraws) % TapeLen
            /\ seenIPs' = seenIPs \cup {ip}
            /\ \/ ip \notin seenIPs
               \/ DedupDraws = 32 /\ \A i \in 0..31 : DedupDraw(i) \in seenIPs]_vars
    /\ [](sampleIPWithDedup(cidrs[1], rng, 0, rngPos[0], seenIPs) # {})

\* Every address of a /30 has been probed and a further task was dispatched
\* all the same, with an address seen before.
C31_Witness ==
    /\ cidrs[1].bits = 30
    /\ AddrsOf(cidrs[1]) \subseteq seenIPs
    /\ Len(tasks) >= 5
    /\ \E i \in 1..(Len(tasks) - 1) : tasks[i].ip = tasks[Len(tasks)].ip

\* ---------------------------------------------------------------------
\* The end of a run: the engine after ExploreAfter results, so that the
\* exploitation branch of submitOneTask is taken.  One worker, one head
\* drawing from a tape, the deterministic probe "tiers".

LateBudget == 34

LateSeeds == 2

\* Two /31 roots, one /30 root that splits, an IPv6 root beside an IPv4 one,
\* two roots without host bits.
LateCIDRs ==
    {<<P4(Net10, 31), P4(Net10 + 2, 31)>>, <<P4(Net10, 30)>>,
     <<[fam |-> 6, addr |-> 8, bits |-> 126], P4(Net10, 31)>>,
     <<P4(Net10 + 1, 32), [fam |-> 6, addr |-> 9, bits |-> 128]>>}

LateConfig(sd) ==
    [RunConfigOf(LateBudget, 1) EXCEPT !.Heads = 1, !.TopN = 3, !.Seed = sd,
                                        !.MinSamplesSplit = ExploreAfter + 1,
                                        !.Beam = LateBudget]

\* Task number k (from 0) of the first ExploreAfter tasks: the roots in
\* turn, the addresses of each root in turn.
EarlyTask(req, k) ==
    LET p == req[(k % Len(req)) + 1] IN
    [headID |-> 0, prefix |-> p,
     ip |-> [fam |-> p.fam, addr |-> p.addr + ((k \div Len(req)) % (2 ^ HostBits(p)))]]

\* The tree and the collector after processOneResult has taken the results
\* of tasks k .. upto - 1.
RECURSIVE EarlyResults(_, _, _, _, _)
EarlyResults(req, c, k, upto, s) ==
    IF k >= upto THEN s
    ELSE LET t == EarlyTask(req, k)
             d == CHOOSE d \in {[task |-> t, ok |-> r.ok, ms |-> r.ms] : r \in ProbeResults("tiers", t.ip)} : TRUE
         IN EarlyResults(req, c, k + 1, upto, processOneResult(s.tree, s.topN, c.TopN, d, TimeoutMS))

\* The event loop has taken result number ExploreAfter and is about to
\* submit the replacement; task number ExploreAfter is in the channel.
InitLate ==
    \E sd \in 1..LateSeeds, req \in LateCIDRs, pos \in 0..(TapeLen - 1) :
      \E s1 \in {EarlyResults(req, LateConfig(sd), 0, ExploreAfter \div 3,
                   [tree |-> NewArmTree(req), topN |-> NewTopNCollector])} :
      \E s2 \in {EarlyResults(req, LateConfig(sd), ExploreAfter \div 3, 2 * (ExploreAfter \div 3), s1)} :
      \E s \in {EarlyResults(req, LateConfig(sd), 2 * (ExploreAfter \div 3), ExploreAfter, s2)} :
        /\ rawCfg = LateConfig(sd) /\ cfg = LateConfig(sd)
        /\ cidrs = req /\ mock = "tiers" /\ rng = [h \in {0} |-> Tape(sd, h)] /\ pc = "submit"
        /\ schedErr = "nil" /\ retErr = "nil" /\ response = <<>> /\ ctxErr = "nil"
        /\ roots = s.tree.roots
        /\ nodes = s.tree.nodes
        /\ items = s.topN.items /\ ipSeen = s.topN.ipSeen
        /\ focus = SetFocus(NewHeadManager(cfg), 0, req[1], cfg.Beam).focus
        /\ history = SetFocus(NewHeadManager(cfg), 0, req[1], cfg.Beam).history
        /\ rngPos = [h \in {0} |-> pos]
        /\ seenIPs = {EarlyTask(req, k).ip : k \in 0..ExploreAfter}
        /\ tasks = <<EarlyTask(req, ExploreAfter)>> /\ done = <<>>
        /\ tasksClosed = FALSE /\ doneClosed = FALSE
        /\ workers = [w \in {1} |-> [st |-> "idle", d |-> NoDone]]
        /\ submitted = ExploreAfter + 1 /\ completed = ExploreAfter
        /\ lastSplit = ExploreAfter /\ fillI = InitialBatch
        /\ seed = sd /\ offered = <<>> /\ passes = <<>> /\ callers = <<>> /\ made = <<>>
        /\ updaters = <<>> /\ updated = <<>>
        /\ runNo = 1 /\ prevTop = <<>>

\* The context is not cancelled in these runs, so that every result has
\* been taken when the loop ends and the final drain finds e.done empty.
NextLate ==
    \/ LoopExit
    \/ LoopRecv
    \/ LoopSubmit
    \/ CloseTasks
    \/ WaitWorkers
    \/ Return
    \/ \E w \in DOMAIN workers : WorkerProbe(w)
    \/ \E w \in DOMAIN workers : WorkerEnd(w)
    \/ \E w \in DOMAIN workers : WorkerSend(w)

SpecLate == InitLate /\ [][NextLate]_vars

\* The tasks that have been dispatched and whose results were not taken
\* yet: in the tasks channel, held by a worker, or in the done channel.
InFlight ==
    {tasks[i] : i \in DOMAIN tasks}
        \cup {workers[w].d.task : w \in {v \in DOMAIN workers : workers[v].st = "send"}}
        \cup {done[i].task : i \in DOMAIN done}

InsideRoot(a) == \E i \in DOMAIN roots : Contains(roots[i], a)

\* C32: every dispatched task carries an address of the family of its
\* prefix that lies inside the prefix (the prefix's own address when the
\* prefix has no host bits); the task's prefix is an arm of the tree and
\* lies inside a root prefix; every IP of the top-N lies inside a root.
C32_TasksInsidePrefix ==
    /\ \A t \in InFlight :
          /\ t.ip.fam = t.prefix.fam
          /\ Contains(t.prefix, t.ip)
          /\ HostBits(t.prefix) = 0 => t.ip = Addr(t.prefix)
          /\ Masked(t.prefix) \in DOMAIN nodes
          /\ \E i \in DOMAIN roots :
                roots[i].bits <= t.prefix.bits /\ Contains(roots[i], Addr(t.prefix))
    /\ \A i \in DOMAIN items : InsideRoot(items[i].ip)

\* After the split of the /30 root a task was dispatched for one of its
\* children, with an address that is not the child's own.
C32_Witness ==
    /\ submitted > ExploreAfter + 1
    /\ \E t \in InFlight :
          /\ t.prefix.bits > cidrs[1].bits
          /\ t.ip # Addr(t.prefix)
          /\ t.ip \notin {items[i].ip : i \in DOMAIN items}

\* The best (lowest) top-N score of a prefix, and of the whole top-N.
BestScoreOf(p) ==
    CHOOSE v \in {items[i].score : i \in {j \in DOMAIN items : items[j].prefix = p}} :
        \A i \in DOMAIN items : items[i].prefix = p => v <= items[i].score

BestTop == CHOOSE v \in {items[i].score : i \in DOMAIN items} : \A i \in DOMAIN items : v <= items[i].score

\* The number of times prefix p must appear in the exploit set: three times
\* up to 1.2 times the best score, once up to 1.5 times, else not at all.
ExploitCopies(p) ==
    IF BestScoreOf(p) * 10 <= BestTop * 12 THEN 3
    ELSE IF BestScoreOf(p) * 10 <= BestTop * 15 THEN 1 ELSE 0

\* C33: a submitted task whose prefix was not the head manager's selection
\* (the head's focus and history are untouched) was submitted with more
\* than 30 completed probes and a non-empty top-N, and its prefix belongs
\* to the exploit set; any other task has the prefix the head was focused
\* on by the selection, a leaf of the tree.  The exploit set holds the
\* top-N prefixes whose best score is at most 1.5 times the best score,
\* once each, and those at most 1.2 times the best score three times.
C33_ExploitSet ==
    /\ [][Len(tasks') > Len(tasks) =>
            LET t == tasks'[Len(tasks')] IN
            IF history' = history
            THEN /\ completed > 30
                 /\ items # <<>>
                 /\ ExploitCopies(t.prefix) > 0
            ELSE /\ t.prefix \in LeafNodes(nodes)
                 /\ focus'[0] = t.prefix]_vars
    /\ [](items # <<>> =>
            \A lst \in getExploitationPrefixes(items) :
                \A p \in {items[i].prefix : i \in DOMAIN items} \cup {lst[i] : i \in DOMAIN lst} :
                    Cardinality({i \in DOMAIN lst : lst[i] = p}) = ExploitCopies(p))
    /\ [][Len(tasks') > Len(tasks) /\ ~(completed > 30 /\ items # <<>>) => history' # history]_vars

\* With more than 30 completed probes a task was submitted for the prefix
\* that is in the exploit set once, beside one that is in it three times,
\* while the head is focused elsewhere.
C33_Witness ==
    /\ completed > 30
    /\ tasks # <<>>
    /\ tasks[Len(tasks)].prefix # focus[0]
    /\ ExploitCopies(tasks[Len(tasks)].prefix) = 1
    /\ \E i \in DOMAIN items : ExploitCopies(items[i].prefix) = 3

\* ---------------------------------------------------------------------
\* The head manager on a growing tree: SelectNextPrefix by any head,
\* RebalanceHeads, Update and SplitNode, in any order.

HeadsCallsMax == 4

\* One root that splits, two disjoint roots, and roots of both families.
HeadsRootLists ==
    {<<P4(Net10, 30)>>, <<P4(Net10, 31), P4(Net10 + 2, 31)>>,
     <<[fam |-> 6, addr |-> 8, bits |-> 126], P4(Net10, 31)>>}

\* Two or three heads with a history of one or two entries.
HeadsConfigs ==
    {[RunConfigOf(1, 1) EXCEPT !.Heads = n, !.Beam = k] : n \in {2, 3}, k \in {1, 2}}

NoCall == [op |-> "none", h |-> 0, ret |-> NoPrefix]

InitHeads ==
    \E req \in HeadsRootLists, c \in HeadsConfigs :
        /\ rawCfg = c /\ cfg = c
        /\ cidrs = req /\ mock = "quad" /\ rng = FreeDraws /\ pc = "new"
        /\ schedErr = "nil" /\ retErr = "nil" /\ response = <<>> /\ ctxErr = "nil"
        /\ roots = NewArmTree(req).roots
        /\ nodes = NewArmTree(req).nodes
        /\ items = <<>> /\ ipSeen = <<>>
        /\ focus = NewHeadManager(c).focus /\ history = NewHeadManager(c).history
        /\ rngPos = <<>> /\ seenIPs = {} /\ tasks = <<>> /\ done = <<>>
        /\ tasksClosed = FALSE /\ doneClosed = FALSE /\ workers = <<>>
        /\ submitted = 0 /\ completed = 0 /\ lastSplit = 0 /\ fillI = 0
        /\ seed = 0 /\ offered = <<>> /\ passes = <<>> /\ callers = <<NoCall>> /\ made = <<>>
        /\ updaters = <<>> /\ updated = <<>>
        /\ runNo = 1 /\ prevTop = <<>>

HeadsRest ==
    <<seed, offered, updaters, updated, passes, made, rawCfg, cfg, cidrs, mock, pc, schedErr,
      retErr, response, ctxErr, roots, items, ipSeen, rng, rngPos, seenIPs, tasks, done,
      tasksClosed, doneClosed, workers, completed, lastSplit, fillI, runNo, prevTop>>

\* One call HeadManager.SelectNextPrefix by head h, SetFocus included.
SelectCall(h) ==
    /\ submitted < HeadsCallsMax
    /\ \E sel \in SelectNextPrefix(Heads, nodes, rng, h, 0) :
          /\ focus' = (IF IsValid(sel.prefix) THEN SetFocus(Heads, h, sel.prefix, cfg.Beam) ELSE Heads).focus
          /\ history' = (IF IsValid(sel.prefix) THEN SetFocus(Heads, h, sel.prefix, cfg.Beam) ELSE Heads).history
          /\ callers' = <<[op |-> "select", h |-> h, ret |-> sel.prefix]>>
    /\ submitted' = submitted + 1
    /\ UNCHANGED nodes
    /\ UNCHANGED HeadsRest

\* One call HeadManager.RebalanceHeads.
RebalanceCall ==
    /\ submitted < HeadsCallsMax
    /\ \E hs \in RebalanceHeads(Heads, nodes, cfg.Beam) :
          /\ focus' = hs.focus
          /\ history' = hs.history
    /\ callers' = <<[op |-> "rebalance", h |-> 0, ret |-> NoPrefix]>>
    /\ submitted' = submitted + 1
    /\ UNCHANGED nodes
    /\ UNCHANGED HeadsRest

\* One call ArmTree.Update followed by ArmTree.SplitNode on the same arm.
GrowCall ==
    /\ \E p \in LeafNodes(nodes) :
          \E t \in {TreeUpdate(Tree, p, TRUE, 10, TimeoutMS)} :
              /\ SplitNodeOK(t.nodes, p, cfg)
              /\ nodes' = SplitNode(t.nodes, p, cfg)
    /\ callers' = <<[op |-> "grow", h |-> 0, ret |-> NoPrefix]>>
    /\ UNCHANGED <<focus, history, submitted>>
    /\ UNCHANGED HeadsRest

NextHeads ==
    \/ \E h \in DOMAIN focus : SelectCall(h)
    \/ RebalanceCall
    \/ GrowCall

SpecHeads == InitHeads /\ [][NextHeads]_vars

\* The last k entries of a list.
LastOf(s, k) == IF Len(s) > k THEN SubSeq(s, Len(s) - k + 1, Len(s)) ELSE s

\* C34: SelectNextPrefix on a non-empty tree returns a leaf of the tree as
\* it was at the call, makes it the calling head's focus, appends it to
\* that head's history and leaves the focus of every other head alone;
\* whatever SetFocus calls were made, a history holds at most historySize
\* entries and its last entry is the head's focus.
C34_SelectSetsFocus ==
    /\ [][callers'[1].op = "select" /\ submitted' = submitted + 1 /\ LeafNodes(nodes) # {} =>
            LET h == callers'[1].h
                p == callers'[1].ret
            IN /\ p \in LeafNodes(nodes)
               /\ focus'[h] = p
               /\ history'[h] = LastOf(Append(history[h], p), cfg.Beam)
               /\ \A o \in DOMAIN focus \ {h} : focus'[o] = focus[o] /\ history'[o] = history[o]]_vars
    /\ [](\A h \in DOMAIN focus :
            /\ Len(history[h]) <= cfg.Beam
            /\ history[h] # <<>> => history[h][Len(history[h])] = focus[h])

\* A head with a history of two entries has selected a third prefix, a
\* child made by a split, while another head keeps its focus on the root.
C34_Witness ==
    /\ callers[1].op = "select"
    /\ cfg.Beam = 2
    /\ LET h == callers[1].h IN
         /\ Len(history[h]) = 2
         /\ history[h][1] # history[h][2]
         /\ focus[h] \notin {roots[i] : i \in DOMAIN roots}
         /\ \E o \in DOMAIN focus \ {h} : IsValid(focus[o]) /\ focus[o] # focus[h]
    /\ submitted >= 4

\* The valid focuses of the heads, in head order.
ValidFocuses == SelectSeq([i \in 1..Cardinality(DOMAIN focus) |-> focus[i - 1]], IsValid)

\* Twice the number of pairs of valid focuses whose summed distance is
\* below 4 per pair: the heads have converged.
Converged ==
    LET n == Len(ValidFocuses) IN
    /\ n >= 2
    /\ PairDistanceSum(ValidFocuses) < 4 * ((n * (n - 1)) \div 2)

\* Head h is focused on the leaf at index (h * L) \div H of some listing of
\* the leaves after the step, for every head h.
FocusReassigned ==
    LET H == Cardinality(DOMAIN focus) IN
    \E ord \in Orders(LeafNodes(nodes)) :
        \A h \in DOMAIN focus : focus'[h] = ord[((h * Len(ord)) \div H) + 1]

\* The same, each new focus being set by SetFocus.
Reassigned ==
    /\ FocusReassigned
    /\ \A h \in DOMAIN focus : history'[h] = LastOf(Append(history[h], focus'[h]), cfg.Beam)

\* C35: whenever RebalanceHeads runs and the average pairwise distance of
\* the heads' focuses is below 4, head i's focus becomes the leaf at index
\* (i * L) \div H of the leaf list, for every head; when the average is 4
\* or more no focus changes.
C35_RebalanceReassigns ==
    [][callers'[1].op = "rebalance" /\ submitted' = submitted + 1 =>
            IF Converged THEN FocusReassigned ELSE focus' = focus]_vars

\* C35 (amended): whenever RebalanceHeads runs, the average pairwise
\* distance of the heads' focuses is below 4 and the tree has at least as
\* many leaves as there are heads, head i's focus becomes the leaf at index
\* (i * L) \div H of the leaf list, for every head; when the average is 4
\* or more, or there are fewer leaves than heads, no focus changes.
C35_RebalanceAmended ==
    [][callers'[1].op = "rebalance" /\ submitted' = submitted + 1 =>
            IF Converged /\ Cardinality(LeafNodes(nodes)) >= Cardinality(DOMAIN focus)
            THEN Reassigned
            ELSE focus' = focus /\ history' = history]_vars

\* Two heads selected the same leaf and the third call, RebalanceHeads,
\* moved them to different leaves: each history holds two entries.
C35_Witness ==
    /\ callers[1].op = "rebalance"
    /\ submitted = 3
    /\ DOMAIN focus = {0, 1}
    /\ Len(history[0]) = 2 /\ Len(history[1]) = 2
    /\ history[0][1] = history[1][1]
    /\ focus[0] # focus[1]

\* C36: for a candidate leaf c and the focus o of another head,
\* prefixDistance(c, o) is 0 if and only if c and o are the same prefix, so
\* that the maximum repulsion is applied only to a candidate equal to
\* another head's focus; the distance is symmetric and is 128 between
\* prefixes of different families.
C36_DistanceZeroIffSame ==
    \A h \in DOMAIN focus : \A c \in LeafNodes(nodes) :
        LET others == getOtherHeadFocuses(Heads, h) IN
        \A i \in DOMAIN others :
            /\ prefixDistance(c, others[i]) = 0 <=> Masked(c) = Masked(others[i])
            /\ prefixDistance(c, others[i]) = prefixDistance(others[i], c)
            /\ c.fam # others[i].fam => prefixDistance(c, others[i]) = 128

\* C37: in every SelectNextPrefix call the depth bonus of every candidate
\* leaf lies in [0, 0.2], so that the factor 1 - depthBonus lies in
\* [0.8, 1]: 120 * (1 - depthBonus) lies between 96 and 120.
C37_DepthBonusRange ==
    [][callers'[1].op = "select" /\ submitted' = submitted + 1 =>
            \A p \in LeafNodes(nodes) : 96 <= DepthFactor120(p) /\ DepthFactor120(p) <= 120]_vars

\* ---------------------------------------------------------------------
\* The locks of the tree, the arms, the heads and the head manager: each
\* operation as the list of lock calls it makes, in program order, run by
\* concurrent goroutines.  A sync.RWMutex admits readers while no writer
\* holds it or has announced itself; a writer announces itself (one at a
\* time) and enters when the readers have left.

LockCallers == 2

LockArms == {"a0", "a1"}

LockHeads == {"h0", "h1"}

RL(l) == [act |-> "RLock", lock |-> l]
RU(l) == [act |-> "RUnlock", lock |-> l]
WL(l) == [act |-> "Lock", lock |-> l]
WU(l) == [act |-> "Unlock", lock |-> l]

\* ArmNode.Stats, CanSplit, GetPosteriorParams: read lock of the arm.
ArmRead(a) == <<RL(a), RU(a)>>

\* ArmNode.Update, AddChild, MarkSplit: write lock of the arm.
ArmWrite(a) == <<WL(a), WU(a)>>

\* ArmTree.LeafNodes: Stats of every arm under the tree's read lock.
LocksOfLeafNodes == <<RL("t")>> \o ArmRead("a0") \o ArmRead("a1") \o <<RU("t")>>

\* ArmTree.GetOrCreateNode: the arm exists (found), or it is created under
\* the write lock as a child of arm a (findParentLocked reads a's children,
\* AddChild writes them).
LocksOfGetOrCreateNode(found, a) ==
    IF found THEN <<RL("t"), RU("t")>>
    ELSE <<RL("t"), RU("t"), WL("t")>> \o ArmRead(a) \o ArmWrite(a) \o <<WU("t")>>

\* ArmTree.Update: GetOrCreateNode, then ArmNode.Update on the arm.
LocksOfUpdate(found, a) == LocksOfGetOrCreateNode(found, a) \o ArmWrite(a)

\* ArmTree.SplitNode on arm a: CanSplit, then (if it can be split) AddChild
\* for a created child and MarkSplit under the tree's write lock.
LocksOfSplitNodeHoldingArm(can, a) ==
    IF ~can THEN ArmRead(a)
    ELSE <<RL(a), WL("t")>> \o ArmWrite(a) \o ArmWrite(a) \o <<WU("t"), RU(a)>>

LocksOfSplitNode(can, a) ==
    IF ~can THEN ArmRead(a)
    ELSE ArmRead(a) \o <<WL("t")>> \o ArmWrite(a) \o ArmWrite(a) \o <<WU("t")>>

\* HeadManager.SelectNextPrefix for head h beside head o: LeafNodes,
\* getOtherHeadFocuses, SampleScore of a candidate a (GetPosteriorParams,
\* Stats, then the sampler's lock), SetFocus.
LocksOfSelectNextPrefix(h, o, a) ==
    LocksOfLeafNodes \o <<RL("m"), RL(o), RU(o), RU("m")>>
        \o ArmRead(a) \o ArmRead(a) \o <<WL("s"), WU("s")>> \o <<WL(h), WU(h)>>

\* HeadManager.RebalanceHeads: GetFocus of every head, then (converged)
\* LeafNodes and SetFocus of every head, all under the manager's lock.
LocksOfRebalanceHeads(conv) ==
    <<WL("m"), RL("h0"), RU("h0"), RL("h1"), RU("h1")>>
        \o (IF conv THEN LocksOfLeafNodes \o <<WL("h0"), WU("h0"), WL("h1"), WU("h1")>> ELSE <<>>)
        \o <<WU("m")>>

\* The calls a goroutine can make: the tree calls on arm a0, the head calls
\* by head h0.
LockCalls ==
    {[op |-> "Update", steps |-> LocksOfUpdate(f, "a0")] : f \in BOOLEAN}
    \cup {[op |-> "GetOrCreateNode", steps |-> LocksOfGetOrCreateNode(f, "a0")] : f \in BOOLEAN}
    \cup {[op |-> "LeafNodes", steps |-> LocksOfLeafNodes]}
    \cup {[op |-> "SplitNode", steps |-> LocksOfSplitNode(c, "a0")] : c \in BOOLEAN}
    \cup {[op |-> "SelectNextPrefix", steps |-> LocksOfSelectNextPrefix("h0", "h1", "a0")]}
    \cup {[op |-> "RebalanceHeads", steps |-> LocksOfRebalanceHeads(c)] : c \in BOOLEAN}

\* A goroutine: the call it is in, the next lock call (at), whether it
\* has announced itself as a writer for it, and the locks it holds as a
\* reader (r) and as a writer (w).
Resting == [op |-> "none", steps |-> <<>>, at |-> 1, ann |-> FALSE, r |-> {}, w |-> {}]

InitLock ==
    /\ rawCfg = RunConfigOf(1, 1) /\ cfg = rawCfg
    /\ cidrs = <<P4(Net10, 30)>> /\ mock = "quad" /\ rng = FreeDraws /\ pc = "new"
    /\ schedErr = "nil" /\ retErr = "nil" /\ response = <<>> /\ ctxErr = "nil"
    /\ roots = NewArmTree(cidrs).roots
    /\ nodes = NewArmTree(cidrs).nodes
    /\ items = <<>> /\ ipSeen = <<>>
    /\ focus = NewHeadManager(cfg).focus /\ history = NewHeadManager(cfg).history
    /\ rngPos = <<>> /\ seenIPs = {} /\ tasks = <<>> /\ done = <<>>
    /\ tasksClosed = FALSE /\ doneClosed = FALSE /\ workers = <<>>
    /\ submitted = 0 /\ completed = 0 /\ lastSplit = 0 /\ fillI = 0
    /\ seed = 0 /\ offered = <<>> /\ passes = <<>> /\ made = <<>>
    /\ callers = [k \in 1..LockCallers |-> Resting]
    /\ updaters = <<>> /\ updated = <<>>
    /\ runNo = 1 /\ prevTop = <<>>

LockRest ==
    <<seed, offered, updaters, updated, passes, made, rawCfg, cfg, cidrs, mock, pc, schedErr,
      retErr, response, ctxErr, roots, nodes, items, ipSeen, focus, history, rng, rngPos,
      seenIPs, tasks, done, tasksClosed, doneClosed, workers, submitted, completed, lastSplit,
      fillI, runNo, prevTop>>

InCall(k) == callers[k].at <= Len(callers[k].steps)

Readers(l) == {k \in DOMAIN callers : l \in callers[k].r}

Writers(l) == {k \in DOMAIN callers : l \in callers[k].w}

Announced(l) ==
    {k \in DOMAIN callers : InCall(k) /\ callers[k].ann /\ callers[k].steps[callers[k].at].lock = l}

\* Goroutine k can make its next lock call (or the second half of Lock).
CanStep(k) ==
    /\ InCall(k)
    /\ LET s == callers[k].steps[callers[k].at] IN
       CASE s.act = "RLock" -> Writers(s.lock) = {} /\ Announced(s.lock) = {}
         [] s.act = "Lock" /\ ~callers[k].ann -> Writers(s.lock) = {} /\ Announced(s.lock) = {}
         [] s.act = "Lock" /\ callers[k].ann -> Readers(s.lock) = {}
         [] OTHER -> TRUE

\* A goroutine at rest starts a call.
LockCall(k) ==
    /\ ~InCall(k)
    /\ \E c \in LockCalls :
          callers' = [callers EXCEPT ![k] = [Resting EXCEPT !.op = c.op, !.steps = c.steps]]
    /\ UNCHANGED LockRest

\* The next lock call of goroutine k: Lock announces the writer, then
\* enters; the other calls are one step.  After its last call the
\* goroutine is at rest.
LockStep(k) ==
    /\ CanStep(k)
    /\ LET s == callers[k].steps[callers[k].at]
           c == callers[k]
           n == IF s.act = "Lock" /\ ~c.ann THEN [c EXCEPT !.ann = TRUE]
                ELSE [c EXCEPT !.at = @ + 1, !.ann = FALSE,
                               !.r = IF s.act = "RLock" THEN @ \cup {s.lock}
                                     ELSE IF s.act = "RUnlock" THEN @ \ {s.lock} ELSE @,
                               !.w = IF s.act = "Lock" THEN @ \cup {s.lock}
                                     ELSE IF s.act = "Unlock" THEN @ \ {s.lock} ELSE @]
       IN callers' = [callers EXCEPT ![k] = IF n.at > Len(n.steps) THEN Resting ELSE n]
    /\ UNCHANGED LockRest

NextLock ==
    \/ \E k \in DOMAIN callers : LockCall(k)
    \/ \E k \in DOMAIN callers : LockStep(k)

SpecLock == InitLock /\ [][NextLock]_vars

\* head-manager lock, head locks, tree lock, arm locks, sampler lock.
LockRank(l) ==
    IF l = "m" THEN 1 ELSE IF l \in LockHeads THEN 2 ELSE IF l = "t" THEN 3
    ELSE IF l \in LockArms THEN 4 ELSE 5

\* C38: a goroutine is about to take a lock only while every lock it holds comes
\* earlier in the order head-manager lock, head lock, tree lock, arm lock
\* (so the tree lock is never taken while an arm lock is held); Update
\* holds no tree lock while it holds the arm's lock for the posterior
\* update; and whenever a call is in progress some goroutine can take its
\* next step: concurrent Update, GetOrCreateNode, LeafNodes, SplitNode,
\* SelectNextPrefix and RebalanceHeads calls never deadlock.
C38_LockOrder ==
    /\ \A k \in DOMAIN callers :
          InCall(k) /\ callers[k].steps[callers[k].at].act \in {"RLock", "Lock"} =>
              \A l \in callers[k].r \cup callers[k].w :
                  LockRank(l) < LockRank(callers[k].steps[callers[k].at].lock)
    /\ \A k \in DOMAIN callers :
          \* the last lock call of Update is the Unlock of ArmNode.Update
          callers[k].op = "Update" /\ callers[k].at = Len(callers[k].steps) =>
              /\ callers[k].w \subseteq LockArms /\ callers[k].w # {}
              /\ callers[k].r = {}
    /\ (\E k \in DOMAIN callers : InCall(k)) => \E k \in DOMAIN callers : CanStep(k)

\* SplitNode has announced itself as writer of the tree and waits for
\* LeafNodes, which holds the tree's read lock and an arm's read lock.
C38_Witness ==
    \E k \in DOMAIN callers, o \in DOMAIN callers :
        /\ callers[k].op = "SplitNode" /\ callers[k].ann
        /\ callers[k].steps[callers[k].at].lock = "t"
        /\ ~CanStep(k)
        /\ callers[o].op \in {"LeafNodes", "SelectNextPrefix"}
        /\ "t" \in callers[o].r
        /\ callers[o].r \cap LockArms # {}

\* The workers that have not ended.
Running == {w \in DOMAIN workers : workers[w].st # "exit"}

\* C39: the tasks channel is closed only after the scheduler has stopped
\* submitting and nothing is sent on it afterwards; the done channel is
\* closed only after every worker has ended and no worker sends on it
\* afterwards; when Run has returned no worker is running; a worker sends
\* one result at a time, for the task it took, so that the tasks still
\* queued, the results being sent or queued and the results taken never
\* exceed the tasks submitted.
C39_OrderlyShutdown ==
    /\ [](tasksClosed => pc \in {"wait", "drain", "returned"})
    /\ [][Len(tasks') > Len(tasks) => ~tasksClosed /\ ~tasksClosed']_vars
    /\ [](doneClosed => tasksClosed /\ Running = {})
    /\ [][Len(done') > Len(done) => ~doneClosed /\ ~doneClosed']_vars
    /\ [](pc = "returned" => Running = {})
    /\ [][Len(done') > Len(done) =>
            \E w \in DOMAIN workers :
                /\ workers[w].st = "send" /\ workers'[w].st = "idle"
                /\ done' = Append(done, workers[w].d)]_vars
    /\ [](Len(tasks) + Cardinality({w \in DOMAIN workers : workers[w].st = "send"})
            + Len(done) + TotalSamples(nodes) <= submitted)

\* Run has returned after a cancellation: both channels are closed, the
\* workers have ended, one of them after dropping its result.
C39_Witness ==
    /\ pc = "returned" /\ Started
    /\ ctxErr # "nil"
    /\ tasksClosed /\ doneClosed
    /\ workers # <<>> /\ Running = {}
    /\ tasks = <<>>
    /\ TotalSamples(nodes) < submitted
    /\ completed < TotalSamples(nodes)

(***************************************************************************)
(* search.Run, the legacy scheduler (specification SpecLegacy).  The arms  *)
(* map is held in nodes, totalSubmitted and totalCompleted in submitted    *)
(* and completed.  The generators are free: every draw can give any value. *)
(* The context is never cancelled and every probe returns.  The goroutines *)
(* are scheduled fairly: the scheduler and each worker keep taking the     *)
(* steps they can take.                                                    *)
(***************************************************************************)
LegacyBudget == 5

LegacyConcurrency == 3

\* Run's Config after its inline defaults (Heads given as 2), with the
\* default split limits, or with limits that let a /30 split once it has a
\* sample.
LegacyConfigs ==
    {[Budget |-> b, TopN |-> 20, Concurrency |-> c, Heads |-> 2, Beam |-> 32,
      SplitStepV4 |-> 2, SplitStepV6 |-> 4, MinSamplesSplit |-> m.min,
      MaxBitsV4 |-> m.max, MaxBitsV6 |-> 56, Seed |-> 1] :
        b \in {2, LegacyBudget}, c \in {1, LegacyConcurrency},
        m \in {[min |-> 20, max |-> 24], [min |-> 1, max |-> 32]}}

\* The prefix lists: a /30 (4 addresses), a /31 (2 addresses).
LegacyCIDRs == {<<P4(Net10, 30)>>, <<P4(Net10, 31)>>}

\* &arm{Pfx: p}.  SumOK is the sum of the successful latencies, of which
\* MeanOKTotal is the mean.
NewLegacyArm == [Samples |-> 0, OK |-> 0, Fail |-> 0, SumOK |-> 0, Split |-> FALSE]

\* updateArm.
updateArm(arms, pfx, ok, ms) ==
    LET a == IF pfx \in DOMAIN arms THEN arms[pfx] ELSE NewLegacyArm
        b == IF ok
             THEN [a EXCEPT !.Samples = @ + 1, !.OK = @ + 1, !.SumOK = @ + ms]
             ELSE [a EXCEPT !.Samples = @ + 1, !.Fail = @ + 1]
    IN [p \in DOMAIN arms \cup {pfx} |-> IF p = pfx THEN b ELSE arms[p]]

\* arm.scoreMS as a fraction [num, den].
scoreMS(a) ==
    LET okd == IF a.OK = 0 THEN 1 ELSE a.OK
        sd == IF a.Samples = 0 THEN 1 ELSE a.Samples
        mean == IF a.OK = 0 THEN TimeoutMS * 2 ELSE a.SumOK
    IN [num |-> mean * sd + a.Fail * TimeoutMS * okd, den |-> okd * sd]

\* trySplitTop: the possible arms maps afterwards (the sort leaves the order
\* of equal scores open).
trySplitTop(arms, c) ==
    LET cands == {p \in DOMAIN arms :
                    /\ ~arms[p].Split
                    /\ arms[p].Samples >= c.MinSamplesSplit
                    /\ ~(p.fam = 4 /\ p.bits >= c.MaxBitsV4)
                    /\ ~(p.fam = 6 /\ p.bits >= c.MaxBitsV6)}
        sorted == {o \in Orders(cands) :
                     \A i \in 1..(Len(o) - 1) :
                        scoreMS(arms[o[i]]).num * scoreMS(arms[o[i + 1]]).den
                          <= scoreMS(arms[o[i + 1]]).num * scoreMS(arms[o[i]]).den}
        limit == IF c.Heads > Cardinality(cands) THEN Cardinality(cands) ELSE c.Heads
        step(p) == IF p.fam = 4 THEN c.SplitStepV4 ELSE c.SplitStepV6
        kids(S) == UNION {{SplitPrefix(p, step(p))[k] : k \in DOMAIN SplitPrefix(p, step(p))} : p \in S}
        after(S) == [p \in DOMAIN arms \cup kids(S) |->
                        IF p \in S THEN [arms[p] EXCEPT !.Split = TRUE]
                        ELSE IF p \in DOMAIN arms THEN arms[p]
                        ELSE NewLegacyArm]
    IN IF cands = {} THEN {arms}
       ELSE {after({o[i] : i \in 1..limit}) : o \in sorted}

\* chooseArm: the prefixes it can return.  The beam is the first Beam arms
\* of a list sorted by jittered scores and the candidate values carry a
\* jitter too, both unbounded, so that any arm can come out.
chooseArm(arms) == DOMAIN arms

\* cidr.RandomAddr(p, rng): an address of p.
RandomAddr(p) == AddrsOf(p)

InitLegacy ==
    \E c \in LegacyConfigs, req \in LegacyCIDRs :
        /\ rawCfg = c /\ cfg = c
        /\ cidrs = req /\ mock = "quad" /\ rng = FreeDraws /\ pc = "fill"
        /\ schedErr = "nil" /\ retErr = "nil" /\ response = <<>> /\ ctxErr = "nil"
        /\ roots = req
        /\ nodes = [p \in {req[i] : i \in DOMAIN req} |-> NewLegacyArm]
        /\ items = <<>> /\ ipSeen = <<>>
        /\ focus = <<>> /\ history = <<>>
        /\ rngPos = <<>> /\ seenIPs = {} /\ tasks = <<>> /\ done = <<>>
        /\ tasksClosed = FALSE /\ doneClosed = FALSE
        /\ workers = [w \in 1..c.Concurrency |-> [st |-> "idle", d |-> NoDone]]
        /\ submitted = 0 /\ completed = 0 /\ lastSplit = 0 /\ fillI = 0
        /\ seed = 1 /\ offered = <<>> /\ passes = <<>> /\ callers = <<>> /\ made = <<>>
        /\ updaters = <<>> /\ updated = <<>>
        /\ runNo = 1 /\ prevTop = <<>>

LegacyRest ==
    <<seed, offered, updaters, updated, passes, callers, made, rawCfg, cfg, cidrs, mock,
      schedErr, retErr, response, ctxErr, roots, items, ipSeen, focus, history, rng, rngPos,
      done, doneClosed, workers, lastSplit, fillI, runNo, prevTop>>

\* One turn of the initial fill loop: a duplicate address takes the
\* continue and leaves everything as it was; a new address is stored and
\* its task sent.
LegacyFill ==
    /\ pc = "fill"
    /\ submitted < cfg.Budget /\ submitted < cfg.Concurrency * 2
    /\ \E p \in chooseArm(nodes) : \E ip \in RandomAddr(p) :
         IF ip \in seenIPs
         THEN UNCHANGED <<seenIPs, tasks, submitted>>
         ELSE /\ Len(tasks) < ChanCap
              /\ seenIPs' = seenIPs \cup {ip}
              /\ tasks' = Append(tasks, [headID |-> submitted % cfg.Heads, prefix |-> p, ip |-> ip])
              /\ submitted' = submitted + 1
    /\ UNCHANGED <<pc, nodes, completed, tasksClosed>>
    /\ UNCHANGED LegacyRest

\* The condition of the initial fill loop fails.
LegacyFillEnd ==
    /\ pc = "fill"
    /\ ~(submitted < cfg.Budget /\ submitted < cfg.Concurrency * 2)
    /\ pc' = "loop"
    /\ UNCHANGED <<nodes, seenIPs, tasks, submitted, completed, tasksClosed>>
    /\ UNCHANGED LegacyRest

\* One turn of the event loop, a result being received: updateArm, the
\* split and refresh when 800 ms have passed, then the next submission,
\* which a duplicate address cancels (the break).
LegacyRecv ==
    /\ pc = "loop"
    /\ completed < cfg.Budget
    /\ done # <<>>
    /\ completed' = completed + 1
    /\ LET d == Head(done)
           upd == updateArm(nodes, d.task.prefix, d.ok, d.ms)
       IN \E arms \in {upd} \cup trySplitTop(upd, cfg) :
            /\ nodes' = arms
            /\ IF submitted < cfg.Budget
               THEN \E p \in chooseArm(arms) : \E ip \in RandomAddr(p) :
                      IF ip \in seenIPs
                      THEN UNCHANGED <<seenIPs, tasks, submitted>>
                      ELSE /\ Len(tasks) < ChanCap
                           /\ seenIPs' = seenIPs \cup {ip}
                           /\ tasks' = Append(tasks, [headID |-> submitted % cfg.Heads,
                                                      prefix |-> p, ip |-> ip])
                           /\ submitted' = submitted + 1
               ELSE UNCHANGED <<seenIPs, tasks, submitted>>
    /\ done' = Tail(done)
    /\ UNCHANGED <<pc, tasksClosed>>
    /\ UNCHANGED <<seed, offered, updaters, updated, passes, callers, made, rawCfg, cfg, cidrs,
                   mock, schedErr, retErr, response, ctxErr, roots, items, ipSeen, focus,
                   history, rng, rngPos, doneClosed, workers, lastSplit, fillI, runNo, prevTop>>

\* The condition of the event loop fails: close(tasks).
LegacyClose ==
    /\ pc = "loop"
    /\ ~(completed < cfg.Budget)
    /\ tasksClosed' = TRUE
    /\ pc' = "wait"
    /\ UNCHANGED <<nodes, seenIPs, tasks, submitted, completed>>
    /\ UNCHANGED LegacyRest

\* wg.Wait() returns, close(done), return.
LegacyReturn ==
    /\ pc = "wait"
    /\ \A w \in DOMAIN workers : workers[w].st = "exit"
    /\ doneClosed' = TRUE
    /\ pc' = "returned"
    /\ UNCHANGED <<seed, offered, updaters, updated, passes, callers, made, rawCfg, cfg, cidrs,
                   mock, schedErr, retErr, response, ctxErr, roots, nodes, items, ipSeen, focus,
                   history, rng, rngPos, seenIPs, tasks, done, tasksClosed, workers, submitted,
                   completed, lastSplit, fillI, runNo, prevTop>>

\* The steps of the goroutine that runs search.Run.
LegacyStep == LegacyFill \/ LegacyFillEnd \/ LegacyRecv \/ LegacyClose \/ LegacyReturn

\* The steps of the worker goroutine w: take a task and probe, send the
\* result, or end when tasks is closed and empty.
LegacyWorker(w) ==
    /\ w \in DOMAIN workers
    /\ WorkerProbe(w) \/ WorkerSend(w) \/ WorkerEnd(w)

NextLegacy ==
    \/ LegacyFill
    \/ LegacyFillEnd
    \/ LegacyRecv
    \/ LegacyClose
    \/ LegacyReturn
    \/ \E w \in DOMAIN workers : WorkerProbe(w)
    \/ \E w \in DOMAIN workers : WorkerSend(w)
    \/ \E w \in DOMAIN workers : WorkerEnd(w)

SpecLegacy ==
    /\ InitLegacy /\ [][NextLegacy]_vars
    /\ WF_vars(LegacyStep)
    /\ \A w \in 1..LegacyConcurrency : WF_vars(LegacyWorker(w))

\* C40: search.Run returns in every fair run in which every probe returns
\* and the context is not cancelled, whatever the budget and the prefixes,
\* a prefix with fewer addresses than the budget included: the initial fill
\* loop ends and the event loop brings totalCompleted to Budget.
C40_LegacyRunReturns == <>(pc = "returned")

=============================================================================
